---- MODULE Spec2Model ----
(***************************************************************************)
(* The flattest-window search of the Minecraft_PCG scripts and the script  *)
(* run around it.  Five variants of the search are modelled, one per file: *)
(*   "2height_maps"  find_flattest_subarray of 2height_maps.py             *)
(*   "heightmap"     find_flattest_subarray of heightmap.py                *)
(*   "test"          find_flattest_subarray of test.py                     *)
(*   "cozy_cottage"  find_best_location of cozy_cottage.py                 *)
(*   "new_cottage"   find_best_location of new_cottage.py                  *)
(*                                                                         *)
(* Scores.  The code computes avg_gradient = mean(sqrt(gx^2 + gy^2)) in    *)
(* IEEE doubles, where gx and gy are multiples of 1/2 because the height   *)
(* maps hold integers.  The model keeps the score of a window as the       *)
(* integer  sum over its cells of floor(Scale * sqrt((2gx)^2 + (2gy)^2)),  *)
(* that is avg_gradient in units of 1/(2 * Scale * cells).  All windows of *)
(* one call have the same number of cells, so the order of these integers  *)
(* is the order of the means up to the fixed-point rounding.               *)
(*                                                                         *)
(* Placement.  A block-placement call is recorded by the grid column       *)
(* <<row, col>> it is issued for; the y coordinate and the block type are  *)
(* not part of the state.                                                  *)
(***************************************************************************)
EXTENDS Integers, Sequences, FiniteSets, TLC

\* ------------------------------------------------------------------ bounds
\* Largest number of rows / columns of the region that carries the marks.
MaxDim == 3
\* Largest number of marked cells (raised, lowered, water or leaf cells).
MaxMarks == 1
\* Fixed-point scale of a gradient magnitude.
Scale == 1000
\* Elevation of an unmarked cell.
BaseHeight == 60
\* extreme.py: largest number of chunk positions along an axis of the grid.
MaxChunks == 2

\* ------------------------------------------------------- program constants
\* test.py: border_margin = 4
border_margin == 4
\* test.py: margin = random.randint(4, 8)
MarginLow == 4
MarginHigh == 8
\* heightmap.py: margin = 3
ClearMargin == 3
\* 2height_maps.py: sub_array_size = 10 (also area_size = 10 of the cottages)
MainSize == 10
\* heightmap.py: sub_array_size = random.randint(6, 8)
HeightmapSizeLow == 6
HeightmapSizeHigh == 8
\* test.py: sub_array_size = random.randint(10, 14)
TestSizeLow == 10
TestSizeHigh == 14
\* test.py: if sub_array_size < 4
MinBuildSize == 4
\* cozy_cottage.py: if avg_height < 60 or avg_height > 100
MinAvgHeight == 60
MaxAvgHeight == 100
\* cozy_cottage.py: width = 10, length = 16
CozyWidth == 10
CozyLength == 16
\* cozy_cottage.py: add_fence, margin = 6
FenceMargin == 6
\* new_cottage.py: area_size = 10
area_size == 10
\* new_cottage.py and cozy_cottage.py: for _ in range(40), the flowers of
\* add_landscaping
FlowerSamples == 40
\* new_cottage.py and cozy_cottage.py: for _ in range(60), the grass of
\* add_landscaping
GrassSamples == 60
\* extreme.py: chunk_size = 10
chunk_size == 10
\* extreme.py: analyze_terrain(margin=10)
analysis_margin == 10
\* extreme.py: if water_depth < 5
ShallowLimit == 5

Variants == {"2height_maps", "heightmap", "test", "cozy_cottage", "new_cottage"}

\* The variants named find_flattest_subarray (they apply the water mask).
FlattestVariants == {"2height_maps", "heightmap", "test"}

\* The variants named find_best_location (no water mask, default (0,0)).
CottageVariants == {"cozy_cottage", "new_cottage"}

\* Python's None as the value of flattest_position and flattest_subarray.
None == <<>>

\* float('inf'): larger than every score (scores are >= 0).
Inf == -1

\* max_value before its first assignment, exit_status while the process runs.
Unbound == -1

VARIABLES
    variant,                 \* which script runs
    num_rows, num_cols,      \* large_array.shape
    marks,                   \* the cells in which the height maps differ
                             \* from level ground, each with its kind
    requested,               \* the window size the caller passes
    sub_array_size,          \* the routine's local (test.py reassigns it)
    pc,                      \* position of the script
    start_row, start_col,    \* loop variables of the scan
    min_gradient_magnitude,
    flattest_position,       \* best_position in the cottages
    flattest_subarray,
    max_value,
    evaluated,               \* number of windows scored so far in this call
    placeCalls,              \* columns a block-placement call was issued for
    outcome,                 \* how the search ended
    exit_status,             \* process exit status, None while running
    calls,                   \* number of calls of the search so far
    first_position,          \* offset returned by the first call
    potential_sites,         \* extreme.py: the list analyze_terrain returns
    selected_site,           \* extreme.py: the site the build is placed on
    dimensions,              \* extreme.py: <<width, length, height>>
    building_style,          \* extreme.py: one of HOUSE_STYLES
    site_plan,               \* extreme.py: the terrain adaptation plan
    layout,                  \* extreme.py: the global layout
    stages,                  \* extreme.py: the build stages completed, in order
    raised,                  \* extreme.py: the exception that left the build
    house_details,           \* extreme.py: what build_house_procedural returns
    flushCalls,              \* extreme.py: number of calls of ED.flushBuffer
    lookup                   \* cozy_cottage.py: the last read of the height map

vars == <<variant, num_rows, num_cols, marks, requested, sub_array_size, pc,
          start_row, start_col,
          min_gradient_magnitude, flattest_position, flattest_subarray,
          max_value, evaluated, placeCalls, outcome, exit_status, calls,
          first_position, potential_sites, selected_site, dimensions,
          building_style, site_plan, layout, stages, raised, house_details,
          flushCalls, lookup>>

input == <<variant, num_rows, num_cols, marks, requested>>

\* The variables of build_house_procedural of extreme.py.
built == <<potential_sites, selected_site, dimensions, building_style,
           site_plan, layout, stages, raised, house_details>>

\* The variables of extreme.py.
house == <<built, flushCalls>>

\* The variables of the flattest-window search and of the script around it.
search == <<sub_array_size, start_row, start_col, min_gradient_magnitude,
            flattest_position, flattest_subarray, max_value, evaluated,
            placeCalls, outcome, exit_status, calls, first_position>>

\* ------------------------------------------------------------------ helpers
Min2(a, b) == IF a < b THEN a ELSE b
Max2(a, b) == IF a > b THEN a ELSE b

Cells(R, C) == (0 .. R - 1) \X (0 .. C - 1)

RECURSIVE SqrtSearch(_, _, _)
SqrtSearch(m, lo, hi) ==
    IF lo = hi THEN lo
    ELSE LET mid == (lo + hi + 1) \div 2
         IN  IF mid * mid <= m THEN SqrtSearch(m, mid, hi)
             ELSE SqrtSearch(m, lo, mid - 1)

\* floor(sqrt(m)) for 0 <= m < 2^31.
ISqrt(m) == SqrtSearch(m, 0, Min2(m, 46340))

RECURSIVE SumSet(_, _)
\* Sum of f[x] over x in S.
SumSet(S, f) ==
    IF S = {} THEN 0
    ELSE LET x == CHOOSE y \in S : TRUE
         IN  f[x] + SumSet(S \ {x}, f)

\* Largest element of a non-empty set of integers.
MaxOf(S) == CHOOSE m \in S : \A x \in S : x <= m

MinOf(S) == CHOOSE m \in S : \A x \in S : m <= x

\* ------------------------------------------------------------ numpy slices
\* Number of rows (columns) of A[start : start + size] on an axis of length n:
\* a slice is clipped at the end of the axis.
SliceLen(n, start, size) == Max2(0, Min2(n, start + size) - Min2(n, start))

\* A[r : r + k, c : c + k] as a function on Cells(rows, cols) of the slice.
SubArray(A, R, C, r, c, k) ==
    [p \in Cells(SliceLen(R, r, k), SliceLen(C, c, k)) |->
        A[<<r + p[1], c + p[2]>>]]

\* ------------------------------------------------------------- np.gradient
\* Mutant of TwiceGradient: central differences only, the two ends left at 0.
TwiceGradientCentralOnly(line, n, i) ==
    IF i = 0 \/ i = n - 1 THEN 0 ELSE line[i + 1] - line[i - 1]

\* Twice the np.gradient value at index i of a line of n >= 2 samples, the
\* sample at index x being line[x]: one-sided differences at the two ends,
\* central differences (f[i+1] - f[i-1]) / 2 inside.
TwiceGradient(line, n, i) ==
    IF i = 0 THEN 2 * (line[1] - line[0])
    ELSE IF i = n - 1 THEN 2 * (line[n - 1] - line[n - 2])
    ELSE line[i + 1] - line[i - 1]

\* np.gradient raises ValueError when an axis has fewer than 2 samples.
GradientRaises(rows, cols) == rows < 2 \/ cols < 2

\* floor(Scale * 2 * sqrt(gx^2 + gy^2)) at cell p of the sub-array S.
Magnitude(S, rows, cols, p) ==
    LET alongRows == [x \in 0 .. rows - 1 |-> S[<<x, p[2]>>]]
        alongCols == [x \in 0 .. cols - 1 |-> S[<<p[1], x>>]]
        gy2 == TwiceGradient(alongRows, rows, p[1])
        gx2 == TwiceGradient(alongCols, cols, p[2])
    IN  ISqrt(Scale * Scale * (gx2 * gx2 + gy2 * gy2))

\* avg_gradient of the sub-array S, in units of 1 / (2 * Scale * rows * cols).
AvgGradient(S, rows, cols) ==
    SumSet(Cells(rows, cols),
           [p \in Cells(rows, cols) |-> Magnitude(S, rows, cols, p)])

\* avg_gradient of the window of size k whose top-left cell is (r, c).
Score(A, R, C, r, c, k) ==
    AvgGradient(SubArray(A, R, C, r, c, k),
                SliceLen(R, r, k), SliceLen(C, c, k))

\* np.all(current_water_subarray == 0)
WaterFree(W, R, C, r, c, k) ==
    \A p \in Cells(SliceLen(R, r, k), SliceLen(C, c, k)) :
        W[<<r + p[1], c + p[2]>>] = 0

\* a < b on scores, b possibly float('inf').
Less(a, b) == b = Inf \/ a < b

\* ------------------------------------------------------------------ inputs
\* test.py scans only offsets at least border_margin away from the border:
\* its marked region starts there.  Its grids have up to
\* 2 * border_margin + MinBuildSize rows and columns, the least number for
\* which a size that is too large is replaced and not refused.
Pad(v) == IF v = "test" THEN border_margin ELSE 0
Extra(v) == IF v = "test" THEN MinBuildSize - MaxDim ELSE 0

\* What a marked cell can be in a variant: lowered or raised by one, a water
\* column, a column with leaves.  Water is read by the find_flattest_subarray
\* variants, leaves by heightmap.py and test.py.
Kinds(v) ==
    {"low", "high"}
    \cup (IF v \in FlattestVariants THEN {"water"} ELSE {})
    \cup (IF v \in {"heightmap", "test"} THEN {"leaf"} ELSE {})

\* The marked regions: r0 x c0 cells starting at (Pad, Pad).
Marked(v, r0, c0) == (Pad(v) .. Pad(v) + r0 - 1) \X (Pad(v) .. Pad(v) + c0 - 1)

\* The numbers of rows and of columns of the marked region.  2height_maps.py,
\* the plain search, is also run on grids one larger.
Dims(v) == 1 .. (IF v = "2height_maps" THEN MaxDim + 1 ELSE MaxDim)

\* The grid whose water mask is nonzero in every cell.
Flooded(v, R, C) ==
    IF v \in FlattestVariants THEN {[p \in Cells(R, C) |-> "water"]} ELSE {}

\* The grids of cozy_cottage.py that lie at the upper end of the elevations
\* its search keeps: every cell at MaxAvgHeight ("top"), every cell one
\* above it ("summit"), and every cell at MaxAvgHeight but one.
Plateaus(v, R, C) ==
    IF v = "cozy_cottage"
    THEN {[p \in Cells(R, C) |-> "top"], [p \in Cells(R, C) |-> "summit"]}
         \cup {[p \in Cells(R, C) |-> IF p = q THEN "summit" ELSE "top"] :
                 q \in Cells(R, C)}
    ELSE {}

\* The assignments of kinds to at most MaxMarks cells of the marked region.
MarkSets(v, r0, c0) ==
    UNION {[S -> Kinds(v)] :
             S \in {T \in SUBSET Marked(v, r0, c0) : Cardinality(T) <= MaxMarks}}

HeightOf(ms, p) ==
    IF p \in DOMAIN ms /\ ms[p] = "low" THEN BaseHeight - 1
    ELSE IF p \in DOMAIN ms /\ ms[p] = "high" THEN BaseHeight + 1
    ELSE IF p \in DOMAIN ms /\ ms[p] = "top" THEN MaxAvgHeight
    ELSE IF p \in DOMAIN ms /\ ms[p] = "summit" THEN MaxAvgHeight + 1
    ELSE BaseHeight

MaskOf(ms, kind, p) == IF p \in DOMAIN ms /\ ms[p] = kind THEN 1 ELSE 0

\* The grids handed to the search.  The search only reads them, so the state
\* holds the marks and the grids are read off them.
\* large_array: the height map (MOTION_BLOCKING_NO_LEAVES).
large_array == [p \in Cells(num_rows, num_cols) |-> HeightOf(marks, p)]
\* water_array: MOTION_BLOCKING - OCEAN_FLOOR.
water_array == [p \in Cells(num_rows, num_cols) |-> MaskOf(marks, "water", p)]
\* leaves_array: MOTION_BLOCKING - MOTION_BLOCKING_NO_LEAVES.
leaves_array == [p \in Cells(num_rows, num_cols) |-> MaskOf(marks, "leaf", p)]

\* The window sizes the scripts' own callers pass: 10 in 2height_maps.py and
\* the cottages, random.randint(6, 8) in heightmap.py and
\* random.randint(10, 14) in test.py (the two ends of each range).
MainSizes(v) ==
    CASE v = "heightmap" -> {HeightmapSizeLow, HeightmapSizeHigh}
      [] v = "test" -> {TestSizeLow, TestSizeHigh}
      [] OTHER -> {MainSize}

\* The window sizes a caller passes: 1 .. MaxDim + 1 and the scripts' own.
Sizes(v) == (1 .. MaxDim + 1) \cup MainSizes(v)

Init ==
    \E v \in Variants :
      \E r0 \in Dims(v), c0 \in Dims(v), k \in Sizes(v) :
        LET R == r0 + 2 * Pad(v) + Extra(v)
            C == c0 + 2 * Pad(v) + Extra(v)
        IN  /\ variant = v
            /\ num_rows = R
            /\ num_cols = C
            /\ marks \in MarkSets(v, r0, c0) \cup Flooded(v, R, C)
                          \cup Plateaus(v, R, C)
            /\ requested = k
            /\ sub_array_size = k
            /\ pc = "call"
            /\ start_row = 0
            /\ start_col = 0
            /\ min_gradient_magnitude = Inf
            /\ flattest_position = None
            /\ flattest_subarray = None
            /\ max_value = Unbound
            /\ evaluated = 0
            /\ placeCalls = {}
            /\ outcome = "running"
            /\ exit_status = Unbound
            /\ calls = 1
            /\ first_position = None
            /\ potential_sites = <<>>
            /\ selected_site = None
            /\ dimensions = None
            /\ building_style = "none"
            /\ site_plan = None
            /\ layout = None
            /\ stages = <<>>
            /\ raised = "none"
            /\ house_details = None
            /\ flushCalls = 0
            /\ lookup = None

\* ------------------------------------------------ the search, step by step
\* Mutant of SizeTooLarge: the size is compared with the number of rows only.
SizeTooLargeRowsOnly(v, R, C, k) ==
    IF v = "test" THEN k + 2 * border_margin > R ELSE k > R

\* The test "Check if sub-array size is valid": test.py tests the size plus
\* the two border margins, the other files the size itself.
SizeTooLarge(v, R, C, k) ==
    IF v = "test"
    THEN k + 2 * border_margin > R \/ k + 2 * border_margin > C
    ELSE k > R \/ k > C

\* The size the scan runs with: test.py replaces a size that is too large by
\* min(num_rows, num_cols) - 2 * border_margin.
AdjustedSize(v, R, C, k) ==
    IF v = "test" /\ SizeTooLarge(v, R, C, k)
    THEN Min2(R, C) - 2 * border_margin
    ELSE k

\* raise ValueError(...) of the size check.
SizeRaises(v, R, C, k) ==
    IF v = "test"
    THEN SizeTooLarge(v, R, C, k) /\ AdjustedSize(v, R, C, k) < MinBuildSize
    ELSE SizeTooLarge(v, R, C, k)

\* First value of start_row and of start_col.
FirstStart(v) == IF v = "test" THEN border_margin ELSE 0

\* Mutant of MaxStart: the last start position is one too far.
MaxStartOffByOne(v, n, k) ==
    IF v = "test" THEN n - k - border_margin + 1 ELSE n - k + 1

\* max_start_row (n = num_rows) and max_start_col (n = num_cols).
MaxStart(v, n, k) == IF v = "test" THEN n - k - border_margin ELSE n - k

\* Entry of the routine up to the first loop iteration.
CheckSize ==
    /\ pc = "call"
    /\ IF SizeRaises(variant, num_rows, num_cols, requested)
       THEN /\ pc' = "raised"
            /\ outcome' = "ValueError"
            /\ sub_array_size' =
                 AdjustedSize(variant, num_rows, num_cols, requested)
            /\ UNCHANGED <<start_row, start_col, flattest_position>>
       ELSE LET k == AdjustedSize(variant, num_rows, num_cols, requested)
                nonempty ==
                    /\ FirstStart(variant) <= MaxStart(variant, num_rows, k)
                    /\ FirstStart(variant) <= MaxStart(variant, num_cols, k)
            IN  /\ sub_array_size' = k
                /\ start_row' = FirstStart(variant)
                /\ start_col' = FirstStart(variant)
                /\ flattest_position' =
                     IF variant \in CottageVariants THEN <<0, 0>> ELSE None
                /\ pc' = IF nonempty THEN "scan" ELSE "post"
                /\ UNCHANGED outcome
    /\ UNCHANGED <<input, lookup, house, min_gradient_magnitude,
                   flattest_subarray, max_value, evaluated, placeCalls,
                   exit_status, calls, first_position>>

\* Mutant of IsFlatter: an equal score replaces the best one too.
IsFlatterOrEqual(avg, minimum) == minimum = Inf \/ avg <= minimum

\* Mutant of IsFlatter: from the second call on an equal score replaces the
\* best one too.
IsFlatterLaterCalls(avg, minimum) ==
    \/ minimum = Inf
    \/ avg < minimum
    \/ (avg = minimum /\ calls > 1)

\* avg_gradient < min_gradient_magnitude
IsFlatter(avg, minimum) == Less(avg, minimum)

\* Mutant of Skipped: only the windows that are too low are skipped.
SkippedTooLowOnly(v, S, rows, cols) ==
    /\ v = "cozy_cottage"
    /\ SumSet(Cells(rows, cols), S) < MinAvgHeight * rows * cols

\* The cottage's "Skip areas that are too high or too low" (cozy_cottage.py
\* only): avg_height = np.mean(current_subarray), compared as sums.
Skipped(v, S, rows, cols) ==
    /\ v = "cozy_cottage"
    /\ LET total == SumSet(Cells(rows, cols), S)
       IN  \/ total < MinAvgHeight * rows * cols
           \/ total > MaxAvgHeight * rows * cols

\* Mutant of Accepts: the water mask is not consulted.
AcceptsIgnoringWater(v, avg, minimum, waterfree, skipped) ==
    IF v \in FlattestVariants
    THEN Less(avg, minimum)
    ELSE ~skipped /\ Less(avg, minimum)

\* The condition under which a window replaces the best one so far.
Accepts(v, avg, minimum, waterfree, skipped) ==
    IF v \in FlattestVariants
    THEN IsFlatter(avg, minimum) /\ waterfree
    ELSE ~skipped /\ IsFlatter(avg, minimum)

\* Mutant of UpdateBlock: max_value is the largest value of all the windows
\* accepted so far instead of the accepted window's.
UpdateBlockRunningMax(v, locals, avg, waterfree, skipped, r, c, S) ==
    IF (IF v \in FlattestVariants
        THEN Less(avg, locals[1]) /\ waterfree
        ELSE ~skipped /\ Less(avg, locals[1]))
    THEN <<avg,
           <<r, c>>,
           IF v \in FlattestVariants THEN S ELSE locals[3],
           IF v \in {"2height_maps", "heightmap"}
           THEN MaxOf({locals[4]} \cup {S[p] : p \in DOMAIN S})
           ELSE locals[4]>>
    ELSE locals

\* The locals <<min_gradient_magnitude, flattest_position, flattest_subarray,
\* max_value>> after one "if ...: update" block on the window at (r, c).
UpdateBlock(v, locals, avg, waterfree, skipped, r, c, S) ==
    IF Accepts(v, avg, locals[1], waterfree, skipped)
    THEN <<avg,
           <<r, c>>,
           IF v \in FlattestVariants THEN S ELSE locals[3],
           IF v \in {"2height_maps", "heightmap"}
           THEN MaxOf({S[p] : p \in DOMAIN S}) ELSE locals[4]>>
    ELSE locals

\* One iteration of the double loop: the window at (start_row, start_col).
ScanStep ==
    /\ pc = "scan"
    /\ LET rows == SliceLen(num_rows, start_row, sub_array_size)
           cols == SliceLen(num_cols, start_col, sub_array_size)
       IN  IF GradientRaises(rows, cols)
           THEN /\ pc' = "raised"
                /\ outcome' = "ValueError"
                /\ UNCHANGED <<start_row, start_col, min_gradient_magnitude,
                               flattest_position, flattest_subarray,
                               max_value, evaluated>>
           ELSE LET S == SubArray(large_array, num_rows, num_cols,
                                  start_row, start_col, sub_array_size)
                    avg == AvgGradient(S, rows, cols)
                    waterfree == WaterFree(water_array, num_rows, num_cols,
                                           start_row, start_col, sub_array_size)
                    skipped == Skipped(variant, S, rows, cols)
                    before == <<min_gradient_magnitude, flattest_position,
                                flattest_subarray, max_value>>
                    once == UpdateBlock(variant, before, avg, waterfree,
                                        skipped, start_row, start_col, S)
                    \* test.py holds the update block twice
                    after == IF variant = "test"
                             THEN UpdateBlock(variant, once, avg, waterfree,
                                              skipped, start_row, start_col, S)
                             ELSE once
                    lastCol == MaxStart(variant, num_cols, sub_array_size)
                    lastRow == MaxStart(variant, num_rows, sub_array_size)
                IN  /\ min_gradient_magnitude' = after[1]
                    /\ flattest_position' = after[2]
                    /\ flattest_subarray' = after[3]
                    /\ max_value' = after[4]
                    /\ evaluated' = evaluated + 1
                    /\ IF start_col < lastCol
                       THEN /\ start_col' = start_col + 1
                            /\ UNCHANGED <<start_row, pc>>
                       ELSE IF start_row < lastRow
                       THEN /\ start_row' = start_row + 1
                            /\ start_col' = FirstStart(variant)
                            /\ UNCHANGED pc
                       ELSE /\ pc' = "post"
                            /\ UNCHANGED <<start_row, start_col>>
                    /\ UNCHANGED outcome
    /\ UNCHANGED <<input, lookup, house, sub_array_size, placeCalls,
                   exit_status, calls, first_position>>

\* Mutant of TreesPresent: leaves anywhere on the grid count.
TreesPresentAnywhere(v, pos, k) ==
    /\ v \in {"heightmap", "test"}
    /\ \E p \in Cells(num_rows, num_cols) : leaves_array[p] > 0

\* np.any(optimal_area_leaves > 0) for the window at pos.
TreesPresent(v, pos, k) ==
    /\ v \in {"heightmap", "test"}
    /\ \E p \in Cells(SliceLen(num_rows, pos[1], k),
                      SliceLen(num_cols, pos[2], k)) :
          leaves_array[<<pos[1] + p[1], pos[2] + p[2]>>] > 0

\* The values of the clearing margin: test.py draws it at random at its entry
\* and reads it in the clearing loops only; heightmap.py fixes it.
MarginDraws(v) ==
    IF v = "test" THEN MarginLow .. MarginHigh ELSE {ClearMargin}

\* The columns the routine places air on: the chosen window widened by the
\* margin on every side, clipped to the grid.
ClearedColumns(v, pos, k, m) ==
    (Max2(0, pos[1] - m) .. Min2(num_rows, pos[1] + k + m) - 1)
    \X (Max2(0, pos[2] - m) .. Min2(num_cols, pos[2] + k + m) - 1)

\* After the loops: exit() when no window was accepted, else the tree
\* clearing of heightmap.py and test.py, and the return.
AfterScan ==
    /\ pc = "post"
    /\ IF variant \in FlattestVariants /\ flattest_position = None
       THEN /\ pc' = "exited"
            /\ outcome' = "no_site"
            /\ UNCHANGED placeCalls
       ELSE /\ pc' = "returned"
            /\ outcome' = "returned"
            /\ \E margin \in MarginDraws(variant) :
                 placeCalls' =
                   IF TreesPresent(variant, flattest_position, sub_array_size)
                   THEN placeCalls \cup ClearedColumns(variant,
                            flattest_position, sub_array_size, margin)
                   ELSE placeCalls
    /\ UNCHANGED <<input, lookup, house, sub_array_size, start_row, start_col,
                   min_gradient_magnitude, flattest_position,
                   flattest_subarray, max_value, evaluated, exit_status,
                   calls, first_position>>

\* ------------------------------------------------------ the script around it
\* place_block of test.py reads heights[(local_x, local_z)] over the window
\* of the size its caller asked for: an index outside the grid raises
\* IndexError.
BuildRaises(v, pos, k) ==
    v = "test" /\ (pos[1] + k > num_rows \/ pos[2] + k > num_cols)

\* The columns the caller of the search places blocks on first:
\*   heightmap.py  place_block: cobblestone from each column's height up to
\*                 the window's maximum, so on the columns below the maximum;
\*   test.py       place_block: air and foundation on every window column;
\*   cozy_cottage  the glowstone marker on the chosen column;
\*   new_cottage   clear_space: the cuboid's first corner, one off the chosen
\*                 column;
\*   2height_maps  none (it plots).
\* The floor, wall, roof and interior calls that follow in test.py and the
\* cottages are issued relative to the same offset and are not recorded.
BuiltColumns(v, pos, k) ==
    LET window == (pos[1] .. pos[1] + k - 1) \X (pos[2] .. pos[2] + k - 1)
    IN  CASE v = "heightmap" ->
               {p \in window :
                  large_array[p] <
                    MaxOf({0} \cup {large_array[q] : q \in window})}
          [] v = "test" -> window
          [] v = "cozy_cottage" -> {pos}
          [] v = "new_cottage" -> {<<pos[1] + 1, pos[2] + 1>>}
          [] OTHER -> {}

\* What the script does with the returned site.
Build ==
    /\ pc = "returned"
    /\ IF BuildRaises(variant, flattest_position, requested)
       THEN /\ pc' = "crashed"
            /\ UNCHANGED placeCalls
       ELSE /\ pc' = "built"
            /\ placeCalls' = placeCalls
                 \cup BuiltColumns(variant, flattest_position, requested)
    /\ UNCHANGED <<input, lookup, house, sub_array_size, start_row, start_col,
                   min_gradient_magnitude, flattest_position,
                   flattest_subarray, max_value, evaluated, outcome,
                   exit_status, calls, first_position>>

\* The exit status of the process:
\*   "built"    the script ran to its end: 0;
\*   "exited"   exit() without an argument is SystemExit(None): 0;
\*   "raised"   ValueError: uncaught in 2height_maps.py, heightmap.py and
\*              test.py (traceback, 1); caught by main's "except Exception"
\*              in the cottages, which prints and returns (0);
\*   "crashed"  uncaught IndexError: 1.
ExitStatus(v, at) ==
    CASE at = "built" -> 0
      [] at = "exited" -> 0
      [] at = "raised" -> IF v \in CottageVariants THEN 0 ELSE 1
      [] OTHER -> 1

\* The process ends.
Terminate ==
    /\ pc \in {"built", "exited", "raised", "crashed"}
    /\ pc' = "done"
    /\ exit_status' = ExitStatus(variant, pc)
    /\ UNCHANGED <<input, lookup, house, sub_array_size, start_row, start_col,
                   min_gradient_magnitude, flattest_position,
                   flattest_subarray, max_value, evaluated, placeCalls,
                   outcome, calls, first_position>>

Next == CheckSize \/ ScanStep \/ AfterScan \/ Build \/ Terminate

Spec == Init /\ [][Next]_vars

\* A second call of the routine on the same grids and size, with its own
\* random draws: the caller keeps the first call's offset.
CallAgain ==
    /\ pc = "returned"
    /\ calls = 1
    /\ calls' = 2
    /\ first_position' = flattest_position
    /\ pc' = "call"
    /\ sub_array_size' = requested
    /\ min_gradient_magnitude' = Inf
    /\ flattest_position' = None
    /\ flattest_subarray' = None
    /\ max_value' = Unbound
    /\ evaluated' = 0
    /\ outcome' = "running"
    /\ UNCHANGED <<input, lookup, house, start_row, start_col, placeCalls,
                   exit_status>>

NextTwice == Next \/ CallAgain

SpecTwice == Init /\ [][NextTwice]_vars

\* =============================================================== extreme.py
\* The script extreme.py: analyze_terrain, the choice of a site, a size and a
\* style, the terrain adaptation plan, the layout, the five build stages and
\* main's handlers.  The grids are num_rows x num_cols (terrain_hmap.shape)
\* and differ from level ground in the cells of marks.
\*
\* Qualities and standard deviations are kept in units of 1 / ChunkCells: the
\* standard deviation of a chunk is sqrt(V) / ChunkCells for the integer
\* V = ChunkCells * sum(h^2) - sum(h)^2, and the tests of height_variance
\* against 1.5 and 5 are made on V itself.

\* The kinds of cell that differ from level ground.
FeatureKinds == {"bump", "hill", "peak", "shallow", "deep"}

\* How far a cell of a kind rises above level ground: one block, enough for a
\* chunk with one such cell to have 1.5 <= height_variance <= 5, and enough
\* for height_variance > 5.
Rise(kind) ==
    CASE kind = "bump" -> 1
      [] kind = "hill" -> 2 * chunk_size
      [] kind = "peak" -> 6 * chunk_size
      [] OTHER -> 0

\* The depth of the water on a cell of a kind: just below and at the depth
\* analyze_terrain calls too deep.
Depth(kind) ==
    CASE kind = "shallow" -> ShallowLimit - 1
      [] kind = "deep" -> ShallowLimit
      [] OTHER -> 0

\* terrain_hmap: MOTION_BLOCKING_NO_LEAVES (the water surface on water).
Terrain(ms, p) ==
    IF p \in DOMAIN ms THEN BaseHeight + Rise(ms[p]) ELSE BaseHeight

\* water_diff = terrain_hmap - water_hmap
WaterDiff(ms, p) == IF p \in DOMAIN ms THEN Depth(ms[p]) ELSE 0

\* The length of an axis along which the chunk loop makes n iterations.
GridLen(n) ==
    2 * analysis_margin + chunk_size
    + (IF n = 0 THEN 0 ELSE (chunk_size \div 2) * (n - 1) + 1)

\* The grids' shapes, as numbers of chunk positions along x and along z.
ExtremeShapes ==
    {<<0, 0>>} \cup {<<n, 1>> : n \in 1 .. MaxChunks}
               \cup {<<1, n>> : n \in 1 .. MaxChunks}

\* The cells that may differ from level ground: next to the first chunk but
\* outside every chunk, on the first chunk's rim, inside the first chunk
\* only, inside the first two chunks along x, inside the first two along z.
FeatureCells ==
    {<<analysis_margin - 1, analysis_margin + 2>>,
     <<analysis_margin, analysis_margin + 2>>,
     <<analysis_margin + 2, analysis_margin + 2>>,
     <<analysis_margin + chunk_size - 3, analysis_margin + 2>>,
     <<analysis_margin + 2, analysis_margin + chunk_size - 3>>}

FeatureSets ==
    UNION {[D -> FeatureKinds] :
             D \in {S \in SUBSET FeatureCells : Cardinality(S) <= MaxMarks}}

\* ---------------------------------------------------------- analyze_terrain
\* gradient_x and gradient_z: differences of the two neighbours, zero on the
\* grid's border.
GradientX(ms, X, Z, p) ==
    IF p[1] >= 1 /\ p[1] <= X - 2
    THEN Terrain(ms, <<p[1] + 1, p[2]>>) - Terrain(ms, <<p[1] - 1, p[2]>>)
    ELSE 0

GradientZ(ms, X, Z, p) ==
    IF p[2] >= 1 /\ p[2] <= Z - 2
    THEN Terrain(ms, <<p[1], p[2] + 1>>) - Terrain(ms, <<p[1], p[2] - 1>>)
    ELSE 0

\* len(range(margin, n - chunk_size - margin, chunk_size // 2))
NumChunks(n) ==
    IF n - chunk_size - analysis_margin > analysis_margin
    THEN (n - chunk_size - 2 * analysis_margin + (chunk_size \div 2) - 1)
         \div (chunk_size \div 2)
    ELSE 0

\* The i-th value (from 0) of the chunk loop's variable.
ChunkStart(i) == analysis_margin + (chunk_size \div 2) * i

\* The number of cells of a chunk.
ChunkCells == chunk_size * chunk_size

\* The cells of the chunk at (x, z), as chunk_size x chunk_size offsets.
ChunkOffsets == (0 .. chunk_size - 1) \X (0 .. chunk_size - 1)

\* The value summed over a chunk: the height, its square or the water depth.
CellValue(ms, what, p) ==
    CASE what = "height" -> Terrain(ms, p)
      [] what = "square" -> Terrain(ms, p) * Terrain(ms, p)
      [] OTHER -> WaterDiff(ms, p)

RECURSIVE SumRow(_, _, _, _, _)
\* Sum of the value over the n cells from (x, z) along z.
SumRow(ms, what, x, z, n) ==
    IF n = 0 THEN 0
    ELSE CellValue(ms, what, <<x, z + n - 1>>) + SumRow(ms, what, x, z, n - 1)

RECURSIVE SumGrid(_, _, _, _, _, _)
\* Sum of the value over the m x n cells from (x, z).
SumGrid(ms, what, x, z, m, n) ==
    IF m = 0 THEN 0
    ELSE SumRow(ms, what, x + m - 1, z, n)
         + SumGrid(ms, what, x, z, m - 1, n)

\* The if / elif chain of the site types: <<site_type, site_quality>>.
\*   V          ChunkCells * sum(h^2) - sum(h)^2
\*   steep      max_slope > 0.5
\*   deepEnough np.mean(local_water) > 0
\*   shallow    water_depth < 5, water_depth the mean of the positive depths
\*   span       np.max(local_terrain) - np.min(local_terrain)
Classify(V, steep, has_water, near_water, deepEnough, shallow, span) ==
    IF 4 * V < 9 * ChunkCells * ChunkCells /\ ~has_water
    THEN <<"flat", 10 * ChunkCells - ISqrt(V)>>
    ELSE IF /\ 4 * V >= 9 * ChunkCells * ChunkCells
            /\ V <= 25 * ChunkCells * ChunkCells
            /\ steep
            /\ ~has_water
    THEN <<"hillside", 5 * ChunkCells + Min2(ISqrt(V), 5 * ChunkCells)>>
    ELSE IF near_water /\ ~has_water
    THEN <<"waterfront", 8 * ChunkCells>>
    ELSE IF has_water /\ deepEnough
    THEN (IF shallow THEN <<"shallow_water", 7 * ChunkCells>>
          ELSE <<"undefined", 0>>)
    ELSE IF V > 25 * ChunkCells * ChunkCells /\ span > 7
    THEN <<"elevated",
           6 * ChunkCells + Min2(ISqrt(V) \div 2, 4 * ChunkCells)>>
    ELSE <<"undefined", 0>>

\* The features of the chunk at (x, z) and the site built from them.
ChunkSite(ms, X, Z, x, z) ==
    LET cells == {<<x + o[1], z + o[2]>> : o \in ChunkOffsets}
        inner == {p \in cells :
                    /\ p[1] >= x + 1 /\ p[1] <= x + chunk_size - 2
                    /\ p[2] >= z + 1 /\ p[2] <= z + chunk_size - 2}
        total == SumGrid(ms, "height", x, z, chunk_size, chunk_size)
        squares == SumGrid(ms, "square", x, z, chunk_size, chunk_size)
        water == SumGrid(ms, "water", x, z, chunk_size, chunk_size)
        V == ChunkCells * squares - total * total
        steep == \E p \in cells :
                    4 * (GradientX(ms, X, Z, p) * GradientX(ms, X, Z, p)
                         + GradientZ(ms, X, Z, p) * GradientZ(ms, X, Z, p))
                    > 1
        has_water == \E p \in cells : WaterDiff(ms, p) > 0
        near_water == \E p \in inner : WaterDiff(ms, p) > 0
        wet == Cardinality({p \in cells : WaterDiff(ms, p) > 0})
        lowest == MinOf({Terrain(ms, p) : p \in cells})
        highest == MaxOf({Terrain(ms, p) : p \in cells})
        class == Classify(V, steep, has_water, near_water, water > 0,
                          water < ShallowLimit * wet, highest - lowest)
    IN  [local_x |-> x + chunk_size \div 2,
         local_z |-> z + chunk_size \div 2,
         y |-> total \div ChunkCells,
         type |-> class[1],
         quality |-> class[2],
         height_variance |-> ISqrt(V),
         has_water |-> has_water,
         near_water |-> near_water,
         min_height |-> lowest,
         max_height |-> highest]

\* if site_type != "undefined" and site_quality > 5
Qualifies(site) ==
    site.type # "undefined" /\ site.quality > 5 * ChunkCells

\* The chunks in the order of the double loop, x outside and z inside.
ChunksInScanOrder(ms, X, Z) ==
    [i \in 1 .. NumChunks(X) * NumChunks(Z) |->
        ChunkSite(ms, X, Z, ChunkStart((i - 1) \div NumChunks(Z)),
                            ChunkStart((i - 1) % NumChunks(Z)))]

\* Mutant of RanksBefore: the sort is ascending (reverse=True is missing).
RanksBeforeAscending(a, s) == a.quality <= s.quality

\* potential_sites.sort(key=quality, reverse=True): a site appended earlier
\* stays ahead of a later one unless the later one's quality is larger.
RanksBefore(a, s) == a.quality >= s.quality

RECURSIVE InsertSite(_, _)
InsertSite(sorted, s) ==
    IF sorted = <<>> THEN <<s>>
    ELSE IF RanksBefore(Head(sorted), s)
    THEN <<Head(sorted)>> \o InsertSite(Tail(sorted), s)
    ELSE <<s>> \o sorted

RECURSIVE SortSites(_)
SortSites(sites) ==
    IF sites = <<>> THEN <<>>
    ELSE InsertSite(SortSites(SubSeq(sites, 1, Len(sites) - 1)),
                    sites[Len(sites)])

\* The default site: the grid's centre, at the mean height of the cells up
\* to 5 around it.
DefaultSite(ms, X, Z) ==
    LET cx == X \div 2
        cz == Z \div 2
        x0 == Max2(0, cx - 5)
        z0 == Max2(0, cz - 5)
        nx == Min2(X, cx + 5) - x0
        nz == Min2(Z, cz + 5) - z0
        mean == SumGrid(ms, "height", x0, z0, nx, nz) \div (nx * nz)
    IN  [local_x |-> cx,
         local_z |-> cz,
         y |-> mean,
         type |-> "default",
         quality |-> 5 * ChunkCells,
         height_variance |-> 0,
         has_water |-> FALSE,
         near_water |-> FALSE,
         min_height |-> mean,
         max_height |-> mean]

\* Mutant of AnalyzeTerrain: no default site is appended to an empty list.
AnalyzeTerrainNoDefault(ms, X, Z) ==
    SortSites(SelectSeq(ChunksInScanOrder(ms, X, Z), Qualifies))

\* The list analyze_terrain returns.
AnalyzeTerrain(ms, X, Z) ==
    LET sorted == SortSites(SelectSeq(ChunksInScanOrder(ms, X, Z), Qualifies))
    IN  IF sorted = <<>> THEN <<DefaultSite(ms, X, Z)>> ELSE sorted

InitExtreme ==
    \E shape \in ExtremeShapes :
        /\ variant = "extreme"
        /\ num_rows = GridLen(shape[1])
        /\ num_cols = GridLen(shape[2])
        /\ marks \in FeatureSets
        /\ requested = 0
        /\ sub_array_size = 0
        /\ pc = "main"
        /\ start_row = 0
        /\ start_col = 0
        /\ min_gradient_magnitude = Inf
        /\ flattest_position = None
        /\ flattest_subarray = None
        /\ max_value = Unbound
        /\ evaluated = 0
        /\ placeCalls = {}
        /\ outcome = "running"
        /\ exit_status = Unbound
        /\ calls = 0
        /\ first_position = None
        /\ potential_sites = <<>>
        /\ selected_site = None
        /\ dimensions = None
        /\ building_style = "none"
        /\ site_plan = None
        /\ layout = None
        /\ stages = <<>>
        /\ raised = "none"
        /\ house_details = None
        /\ flushCalls = 0
        /\ lookup = None

\* build_house_procedural, "Find interesting building sites".
Analyze ==
    /\ pc = "main"
    /\ potential_sites' = AnalyzeTerrain(marks, num_rows, num_cols)
    /\ pc' = "choose"
    /\ UNCHANGED <<input, lookup, search, selected_site, dimensions,
                   building_style, site_plan, layout, stages, raised,
                   house_details, flushCalls>>

\* ------------------------------------------------- build_house_procedural
\* top_sites = potential_sites[:max(1, int(len(potential_sites) * 0.8))]
TopSites(sites) ==
    SubSeq(sites, 1, Min2(Len(sites), Max2(1, (Len(sites) * 8) \div 10)))

\* The draws of <<width, length, height>>: the two ends of the ranges of the
\* site's type (randint(a, b) | 1 for the width and the length).  The biome
\* is center_biome's default, for which no adjustment is made.
DimensionDraws(type) ==
    IF type \in {"hillside", "elevated"}
    THEN {<<9, 11, 5>>, <<15, 19, 8>>}
    ELSE IF type \in {"shallow_water", "waterfront"}
    THEN {<<11, 11, 4>>, <<17, 17, 6>>}
    ELSE {<<13, 15, 5>>, <<19, 23, 8>>}

\* choose_building_style: every style has a positive weight on every site.
HOUSE_STYLES ==
    {"cottage", "longhouse", "split-level", "compound", "tower",
     "courtyard", "platform"}

\* An exception leaves build_house_procedural: its locals are gone, the
\* global layout stays, and main's handlers take over.
Propagate(e) ==
    /\ raised' = e
    /\ pc' = "except"
    /\ potential_sites' = <<>>
    /\ selected_site' = None
    /\ dimensions' = None
    /\ building_style' = "none"
    /\ site_plan' = None
    /\ UNCHANGED <<input, lookup, search, layout, stages, house_details,
                   flushCalls>>

\* The choice of the site, of the dimensions and of the style.
ChooseSite ==
    /\ pc = "choose"
    /\ IF TopSites(potential_sites) = <<>>
       THEN Propagate("IndexError")
       ELSE /\ \E i \in 1 .. Len(TopSites(potential_sites)) :
                 /\ selected_site' = potential_sites[i]
                 /\ dimensions' \in DimensionDraws(potential_sites[i].type)
            /\ building_style' \in HOUSE_STYLES
            /\ pc' = "plan"
            /\ UNCHANGED <<input, lookup, search, potential_sites, site_plan,
                           layout, stages, raised, house_details, flushCalls>>

\* ------------------------------------------ create_terrain_adaptation_plan
\* Mutant of TierHeights: one height fewer than tiers.
TierHeightsOneShort(site, tiers) ==
    [i \in 1 .. tiers - 1 |->
        site.min_height
        + ((site.max_height - site.min_height) * (i - 1)) \div tiers]

\* [site["min_height"] + int(tier_height * i) for i in range(tiers)]
TierHeights(site, tiers) ==
    [i \in 1 .. tiers |->
        site.min_height
        + ((site.max_height - site.min_height) * (i - 1)) \div tiers]

\* The plan's foundation_mode, tiers and multi_level_heights; the plan's
\* other keys (base_height, outline_shape, landscaping, ...) are positions
\* and materials and are not part of the state.
AdaptationPlan(site, style) ==
    IF site.type = "shallow_water"
       \/ (site.type = "waterfront" /\ style = "platform")
    THEN [foundation_mode |-> "stilts", tiers |-> 1,
          multi_level_heights |-> <<>>]
    ELSE IF site.type = "hillside" /\ style = "split-level"
    THEN LET tiers == 2 + site.height_variance \div (2 * ChunkCells)
         IN  [foundation_mode |-> "embedded", tiers |-> tiers,
              multi_level_heights |-> TierHeights(site, tiers)]
    ELSE IF site.type = "elevated" /\ style = "tower"
    THEN [foundation_mode |-> "embedded", tiers |-> 1,
          multi_level_heights |-> <<>>]
    ELSE [foundation_mode |-> "standard", tiers |-> 1,
          multi_level_heights |-> <<>>]

create_terrain_adaptation_plan ==
    /\ pc = "plan"
    /\ site_plan' = AdaptationPlan(selected_site, building_style)
    /\ pc' = "layout"
    /\ UNCHANGED <<input, lookup, search, potential_sites, selected_site,
                   dimensions, building_style, layout, stages, raised,
                   house_details, flushCalls>>

\* ----------------------------------------------------- create_house_layout
\* Python's -a // b.
NegDiv(a, b) == (0 - a) \div b

Room(name, x1, z1, x2, z2, tier, sub) ==
    [name |-> name, x1 |-> x1, z1 |-> z1, x2 |-> x2, z2 |-> z2,
     tier |-> tier, is_sub_room |-> sub]

CottageRooms(w, l) ==
    <<Room(<<"main_room">>, NegDiv(w, 4), NegDiv(l, 4), w \div 4, l \div 4,
           0, FALSE),
      Room(<<"bedroom">>, NegDiv(w, 2) + 1, l \div 4, w \div 4,
           l \div 2 - 1, 0, FALSE),
      Room(<<"kitchen">>, w \div 4, NegDiv(l, 2) + 1, w \div 2 - 1,
           l \div 4, 0, FALSE)>>

\* n = num_side_rooms
LonghouseRooms(w, l, n) ==
    LET hall == w \div 3
        room_length == l \div n
        z_start(i) == NegDiv(l, 2) + 1 + i * room_length
        z_end(i) == Min2(z_start(i) + room_length - 1, l \div 2 - 1)
    IN  [j \in 1 .. 2 * n + 1 |->
           IF j = 1
           THEN Room(<<"great_hall">>, NegDiv(hall, 2), NegDiv(l, 2) + 1,
                     hall \div 2, l \div 2 - 1, 0, FALSE)
           ELSE LET i == (j - 2) \div 2
                IN  IF j % 2 = 0
                    THEN Room(<<"left_room", i>>, NegDiv(w, 2) + 1,
                              z_start(i), NegDiv(hall, 2) - 1, z_end(i),
                              0, FALSE)
                    ELSE Room(<<"right_room", i>>, hall \div 2 + 1,
                              z_start(i), w \div 2 - 1, z_end(i), 0, FALSE)]

Directions == {"north", "south", "east", "west"}

\* The room of tier i on the side the draw picked.
TierRoom(w, l, direction, i) ==
    CASE direction = "north" ->
           Room(<<"north_room_tier", i>>, NegDiv(w, 3), l \div 3, w \div 3,
                l \div 2 - 1, i, FALSE)
      [] direction = "south" ->
           Room(<<"south_room_tier", i>>, NegDiv(w, 3), NegDiv(l, 2) + 1,
                w \div 3, NegDiv(l, 3), i, FALSE)
      [] direction = "east" ->
           Room(<<"east_room_tier", i>>, w \div 3, NegDiv(l, 3),
                w \div 2 - 1, l \div 3, i, FALSE)
      [] OTHER ->
           Room(<<"west_room_tier", i>>, NegDiv(w, 2) + 1, NegDiv(l, 3),
                NegDiv(w, 3), l \div 3, i, FALSE)

\* dirs = tier_directions, one direction per tier above the first
SplitLevelRooms(w, l, dirs) ==
    [j \in 1 .. Len(dirs) + 1 |->
        IF j = 1
        THEN Room(<<"common_area">>, NegDiv(w, 3), NegDiv(l, 3), w \div 3,
                  l \div 3, 0, FALSE)
        ELSE TierRoom(w, l, dirs[j - 1], j - 1)]

\* n = num_outbuildings, s = outbuilding_size; the outbuildings take the
\* first n of potential_positions.
CompoundRooms(w, l, n, s) ==
    LET mw == (w * 2) \div 3
        ml == (l * 2) \div 3
        px == <<NegDiv(w, 2) + mw \div 4, w \div 2 - mw \div 4,
                NegDiv(w, 2) + mw \div 4, w \div 2 - mw \div 4>>
        pz == <<NegDiv(l, 2) + ml \div 4, NegDiv(l, 2) + ml \div 4,
                l \div 2 - ml \div 4, l \div 2 - ml \div 4>>
    IN  [j \in 1 .. n + 1 |->
           IF j = 1
           THEN Room(<<"main_building">>, NegDiv(mw, 2), NegDiv(ml, 2),
                     mw \div 2, ml \div 2, 0, FALSE)
           ELSE Room(<<"outbuilding", j - 1>>,
                     px[j - 1] - s \div 2, pz[j - 1] - s \div 2,
                     px[j - 1] + s \div 2, pz[j - 1] + s \div 2, 0, FALSE)]

TowerRooms(w, l, floors) ==
    LET size == Min2(w, l) - 2
    IN  [j \in 1 .. floors |->
           Room(<<"floor", j - 1>>, NegDiv(size, 2), NegDiv(size, 2),
                size \div 2, size \div 2, j - 1, FALSE)]

CourtyardRooms(w, l) ==
    LET cw == w \div 3
        cl == l \div 3
    IN  <<Room(<<"north_wing">>, NegDiv(w, 2) + 1, cl \div 2, w \div 2 - 1,
               l \div 2 - 1, 0, FALSE),
          Room(<<"south_wing">>, NegDiv(w, 2) + 1, NegDiv(l, 2) + 1,
               w \div 2 - 1, NegDiv(cl, 2), 0, FALSE),
          Room(<<"east_wing">>, cw \div 2, NegDiv(cl, 2), w \div 2 - 1,
               cl \div 2, 0, FALSE),
          Room(<<"west_wing">>, NegDiv(w, 2) + 1, NegDiv(cl, 2),
               NegDiv(cw, 2), cl \div 2, 0, FALSE)>>

PlatformRooms(w, l) ==
    LET pw == w - 2
        pl == l - 2
    IN  <<Room(<<"main_platform">>, NegDiv(pw, 2), NegDiv(pl, 2), pw \div 2,
               pl \div 2, 0, FALSE),
          Room(<<"northwest_room">>, NegDiv(pw, 2), 0, 0, pl \div 2, 0, TRUE),
          Room(<<"northeast_room">>, 0, 0, pw \div 2, pl \div 2, 0, TRUE),
          Room(<<"southwest_room">>, NegDiv(pw, 2), NegDiv(pl, 2), 0, 0, 0,
               TRUE),
          Room(<<"southeast_room">>, 0, NegDiv(pl, 2), pw \div 2, 0, 0,
               TRUE)>>

\* The sequences of n different directions.
DirectionDraws(n) ==
    {d \in [1 .. n -> Directions] :
        \A i \in 1 .. n, j \in 1 .. n : i # j => d[i] # d[j]}

\* The random draws of the layout of a style:
\*   longhouse    num_side_rooms = randint(3, 5);
\*   split-level  the direction of each tier above the first;
\*   compound     <<num_outbuildings, outbuilding_size>>, the ends of
\*                randint(2, 4) and of randint(4, 6);
\*   tower        <<num_floors, is_circular>>, the ends of randint(3, 5).
LayoutDraws(style, tiers) ==
    CASE style = "longhouse" -> 3 .. 5
      [] style = "split-level" -> DirectionDraws(tiers - 1)
      [] style = "compound" -> {2, 4} \X {4, 6}
      [] style = "tower" -> {3, 5} \X BOOLEAN
      [] OTHER -> {0}

\* layout["rooms"]
Rooms(style, w, l, draw) ==
    CASE style = "cottage" -> CottageRooms(w, l)
      [] style = "longhouse" -> LonghouseRooms(w, l, draw)
      [] style = "split-level" -> SplitLevelRooms(w, l, draw)
      [] style = "compound" -> CompoundRooms(w, l, draw[1], draw[2])
      [] style = "tower" -> TowerRooms(w, l, draw[1])
      [] style = "courtyard" -> CourtyardRooms(w, l)
      [] OTHER -> PlatformRooms(w, l)

\* The values of to_tier of the special features of type stairs.
Stairs(style, draw) ==
    CASE style = "split-level" -> 1 .. Len(draw)
      [] style = "tower" -> 1 .. draw[1] - 1
      [] OTHER -> {}

\* The split-level branch fills tier_heights up to tiers entries from its
\* last entry: tier_heights[-1] of an empty list raises IndexError.
LayoutRaises(style, plan) ==
    /\ style = "split-level"
    /\ Len(plan.multi_level_heights) < plan.tiers
    /\ plan.multi_level_heights = <<>>

\* The layout: the rooms, the stairs and outer_width, outer_length.
Layout(style, w, l, draw) ==
    LET rooms == Rooms(style, w, l, draw)
        idx == DOMAIN rooms
    IN  [rooms |-> rooms,
         stairs |-> Stairs(style, draw),
         is_circular |-> (style = "tower" /\ draw[2]),
         outer_width |-> MaxOf({rooms[i].x2 : i \in idx})
                         - MinOf({rooms[i].x1 : i \in idx}),
         outer_length |-> MaxOf({rooms[i].z2 : i \in idx})
                          - MinOf({rooms[i].z1 : i \in idx})]

create_house_layout ==
    /\ pc = "layout"
    /\ IF LayoutRaises(building_style, site_plan)
       THEN Propagate("IndexError")
       ELSE /\ \E draw \in LayoutDraws(building_style, site_plan.tiers) :
                 layout' = Layout(building_style, dimensions[1],
                                  dimensions[2], draw)
            /\ pc' = "foundation"
            /\ UNCHANGED <<input, lookup, search, potential_sites,
                           selected_site, dimensions, building_style,
                           site_plan, stages, raised, house_details,
                           flushCalls>>

\* ------------------------------------------------------- the build stages
\* build_foundation: the exception it raises, "none" when it completes.
\*   stilts    completes;
\*   embedded  reads multi_level_heights[tier] for each tier in range(tiers);
\*   standard  reads adj[0] of a dict whose keys are strings.
FoundationRaises(plan) ==
    CASE plan.foundation_mode = "stilts" -> "none"
      [] plan.foundation_mode = "embedded" ->
           IF plan.tiers > Len(plan.multi_level_heights)
           THEN "IndexError" ELSE "none"
      [] OTHER -> "KeyError"

\* randint(room_x1 + 1, room_x2 - 1) and randint(room_z1 + 1, room_z2 - 1)
\* of the room's lighting: an empty range raises ValueError.
TooNarrow(room) == room.x2 - room.x1 < 2 \/ room.z2 - room.z1 < 2

\* add_interior_details: the special features first (the stairs read
\* multi_level_heights[to_tier]), then every room that is not a sub-room.
InteriorRaises(plan, lay) ==
    IF \E t \in lay.stairs : t >= Len(plan.multi_level_heights)
    THEN "IndexError"
    ELSE IF \E i \in DOMAIN lay.rooms :
               ~lay.rooms[i].is_sub_room /\ TooNarrow(lay.rooms[i])
    THEN "ValueError"
    ELSE "none"

\* A stage completed.
Completed(stage, next) ==
    /\ stages' = Append(stages, stage)
    /\ pc' = next
    /\ UNCHANGED <<input, lookup, search, potential_sites, selected_site,
                   dimensions, building_style, site_plan, layout, raised,
                   house_details, flushCalls>>

build_foundation ==
    /\ pc = "foundation"
    /\ IF FoundationRaises(site_plan) # "none"
       THEN Propagate(FoundationRaises(site_plan))
       ELSE Completed("foundation", "walls")

build_walls_and_structure ==
    /\ pc = "walls"
    /\ Completed("walls", "roof")

build_roof ==
    /\ pc = "roof"
    /\ Completed("roof", "interior")

add_interior_details ==
    /\ pc = "interior"
    /\ IF InteriorRaises(site_plan, layout) # "none"
       THEN Propagate(InteriorRaises(site_plan, layout))
       ELSE Completed("interior", "garden")

\* The last stage and the return of the house details.
add_garden_and_landscaping ==
    /\ pc = "garden"
    /\ stages' = Append(stages, "garden")
    /\ house_details' = [dimensions |-> dimensions,
                         style |-> building_style,
                         site_type |-> selected_site.type]
    /\ pc' = "flush"
    /\ UNCHANGED <<input, lookup, search, potential_sites, selected_site,
                   dimensions, building_style, site_plan, layout, raised,
                   flushCalls>>

\* The positions of build_house_procedural.
BuildPositions ==
    {"main", "choose", "plan", "layout", "foundation", "walls", "roof",
     "interior", "garden"}

\* Ctrl-C while build_house_procedural runs.
Interrupt ==
    /\ pc \in BuildPositions
    /\ Propagate("KeyboardInterrupt")

\* ------------------------------------------------------------------- main
\* Mutant of FlushesOn: the KeyboardInterrupt handler does not flush.
FlushesOnNoneWhenInterrupted(path) ==
    IF path = "KeyboardInterrupt" THEN 0 ELSE 1

\* The number of calls of ED.flushBuffer() on a path of main: the end of the
\* try block, "except KeyboardInterrupt" and "except Exception".
FlushesOn(path) ==
    IF path \in {"try", "KeyboardInterrupt", "Exception"} THEN 1 ELSE 0

\* The end of the try block.
FlushAfterBuild ==
    /\ pc = "flush"
    /\ flushCalls' = flushCalls + FlushesOn("try")
    /\ pc' = "done"
    /\ exit_status' = 0
    /\ UNCHANGED <<input, lookup, built, sub_array_size, start_row, start_col,
                   min_gradient_magnitude, flattest_position,
                   flattest_subarray, max_value, evaluated, placeCalls,
                   outcome, calls, first_position>>

\* except KeyboardInterrupt
HandleInterrupt ==
    /\ pc = "except"
    /\ raised = "KeyboardInterrupt"
    /\ flushCalls' = flushCalls + FlushesOn("KeyboardInterrupt")
    /\ pc' = "done"
    /\ exit_status' = 0
    /\ UNCHANGED <<input, lookup, built, sub_array_size, start_row, start_col,
                   min_gradient_magnitude, flattest_position,
                   flattest_subarray, max_value, evaluated, placeCalls,
                   outcome, calls, first_position>>

\* except Exception
HandleException ==
    /\ pc = "except"
    /\ raised # "KeyboardInterrupt"
    /\ flushCalls' = flushCalls + FlushesOn("Exception")
    /\ pc' = "done"
    /\ exit_status' = 0
    /\ UNCHANGED <<input, lookup, built, sub_array_size, start_row, start_col,
                   min_gradient_magnitude, flattest_position,
                   flattest_subarray, max_value, evaluated, placeCalls,
                   outcome, calls, first_position>>

NextExtreme ==
    \/ Analyze
    \/ ChooseSite
    \/ create_terrain_adaptation_plan
    \/ create_house_layout
    \/ build_foundation
    \/ build_walls_and_structure
    \/ build_roof
    \/ add_interior_details
    \/ add_garden_and_landscaping
    \/ Interrupt
    \/ FlushAfterBuild
    \/ HandleInterrupt
    \/ HandleException

SpecExtreme == InitExtreme /\ [][NextExtreme]_vars

\* The steps of NextExtreme other than Analyze.  One of them is enabled at
\* every position but "done" (Interrupt wherever Analyze is), so weak fairness
\* of Running admits the same behaviours as weak fairness of NextExtreme: the
\* process is never suspended for ever.  ENABLED Analyze would recompute the
\* whole terrain analysis at every reference to an operator's argument.
Running ==
    \/ ChooseSite
    \/ create_terrain_adaptation_plan
    \/ create_house_layout
    \/ build_foundation
    \/ build_walls_and_structure
    \/ build_roof
    \/ add_interior_details
    \/ add_garden_and_landscaping
    \/ Interrupt
    \/ FlushAfterBuild
    \/ HandleInterrupt
    \/ HandleException

\* main, build_house_procedural and the handlers run to their end.
SpecExtremeFair == SpecExtreme /\ WF_vars(Running)

\* ============================================================ new_cottage.py
\* buildCozyCottage of new_cottage.py from the site find_best_location
\* returned to the end of main.  The height map is num_rows x num_cols
\* (rows are z, columns are x), flattest_position is best_position: the
\* house starts at x_coord = best_position[1], z_coord = best_position[0].
\* dimensions is <<width, length, height>>, evaluated counts the samples a
\* loop of add_landscaping has drawn, placeCalls holds the <<dx, dz>> a
\* flower was placed at, outcome is the message main prints.

\* The lengths of an axis of the build area.
CottageLens == {area_size * i : i \in 1 .. MaxChunks}

\* The offsets find_best_location can return on an axis of length n: the
\* first and the last.
CottageOffsets(n) == {0, n - area_size}

\* if 0 <= x_coord < len(heightmap) and 0 <= z_coord < len(heightmap[0])
SliceGuard(R, C, x_coord, z_coord) ==
    /\ 0 <= x_coord /\ x_coord < R
    /\ 0 <= z_coord /\ z_coord < C

\* heightmap[(z_coord, x_coord)] is an element of the array (both indices
\* are >= 0 where it is read).
InHeightmap(R, C, x_coord, z_coord) ==
    /\ 0 <= z_coord /\ z_coord < R
    /\ 0 <= x_coord /\ x_coord < C

\* build_foundation reads heightmap[(z_coord, x_coord)] for dx in
\* range(width + 2), dz in range(length + 2) under the guard: IndexError when
\* a guarded cell is outside the array.
CottageFoundationRaises(R, C, pos, width, length) ==
    \E dx \in 0 .. width + 1, dz \in 0 .. length + 1 :
        /\ SliceGuard(R, C, pos[2] + dx, pos[1] + dz)
        /\ ~InHeightmap(R, C, pos[2] + dx, pos[1] + dz)

\* width = randint(6, 14), length = randint(16, 24), height = randint(5, 7):
\* the ends of the ranges.
CottageDimensions == {6, 14} \X {16, 24} \X {5, 7}

\* dx = randint(-3, garden_width + 3) with garden_width = width + 6 (and the
\* same for dz and length): the ends of the range, the edges of the house
\* footprint 0 .. n and the cells next to them.
GardenDraws(n) == {-3, -1, 0, n, n + 1, n + 9}

\* if (0 <= dx <= width) and (0 <= dz <= length): continue
InFootprint(dx, dz, width, length) ==
    /\ 0 <= dx /\ dx <= width
    /\ 0 <= dz /\ dz <= length

\* The names bound at module level of new_cottage.py: imports, assignments
\* and function definitions.
ModuleNames ==
    {"BUILD_AREA", "Block", "ED", "Editor", "LASTX", "LASTY", "LASTZ",
     "STARTX", "STARTY", "STARTZ", "WORLDSLICE", "add_details", "add_fence",
     "add_interior", "add_landscaping", "add_path", "atexit",
     "buildCozyCottage", "build_floor", "build_foundation", "build_roof",
     "build_walls", "choice", "clear_space", "colored", "find_best_location",
     "geo", "logging", "main", "np", "place_tree", "plt", "randint", "random"}

\* The parameters of add_landscaping and the names it assigns.
LandscapingLocals ==
    {"ED", "STARTX", "STARTZ", "_", "dx", "dz", "flower", "flower_y",
     "flowers", "garden_length", "garden_width", "grass_y", "heightmap",
     "length", "start_x", "start_z", "too_close_to_tree", "tx", "tz", "width",
     "x", "x_coord", "y", "z", "z_coord"}

\* A name add_landscaping reads is bound (none of its names is a builtin).
Bound(name) == name \in LandscapingLocals \cup ModuleNames

\* What one pass of the flower loop does with the draw <<dx, dz>>: "skip"
\* (continue, or the guard fails), the exception it raises, or "flower".
\* "for tx, tz in tree_positions" is reached by every sample that passed the
\* guard and the read of the height; no tree is placed by the script
\* (place_tree is never called), so no sample would be too close to one.
FlowerSample(R, C, pos, width, length, dx, dz) ==
    IF InFootprint(dx, dz, width, length) THEN "skip"
    ELSE IF ~SliceGuard(R, C, pos[2] + dx, pos[1] + dz) THEN "skip"
    ELSE IF ~InHeightmap(R, C, pos[2] + dx, pos[1] + dz) THEN "IndexError"
    ELSE IF ~Bound("tree_positions") THEN "NameError"
    ELSE "flower"

\* What one pass of the grass loop does with the draw <<dx, dz>>.
GrassSample(R, C, pos, width, length, dx, dz) ==
    IF InFootprint(dx, dz, width, length) THEN "skip"
    ELSE IF ~SliceGuard(R, C, pos[2] + dx, pos[1] + dz) THEN "skip"
    ELSE IF ~InHeightmap(R, C, pos[2] + dx, pos[1] + dz) THEN "IndexError"
    ELSE "grass"

InitCottage ==
    /\ variant = "new_cottage"
    /\ num_rows \in CottageLens
    /\ num_cols \in CottageLens
    /\ marks = <<>>
    /\ requested = area_size
    /\ sub_array_size = area_size
    /\ pc = "site"
    /\ start_row = 0
    /\ start_col = 0
    /\ min_gradient_magnitude = 0
    /\ flattest_position \in CottageOffsets(num_rows) \X CottageOffsets(num_cols)
    /\ flattest_subarray = None
    /\ max_value = Unbound
    /\ evaluated = 0
    /\ placeCalls = {}
    /\ outcome = "running"
    /\ exit_status = Unbound
    /\ calls = 1
    /\ first_position = None
    /\ potential_sites = <<>>
    /\ selected_site = None
    /\ dimensions = None
    /\ building_style = "none"
    /\ site_plan = None
    /\ layout = None
    /\ stages = <<>>
    /\ raised = "none"
    /\ house_details = None
    /\ flushCalls = 0
    /\ lookup = None

\* The variables the cottage's steps leave alone.
cottageIdle ==
    <<input, lookup, sub_array_size, start_row, start_col, min_gradient_magnitude,
      flattest_position, flattest_subarray, max_value, exit_status, calls,
      first_position, potential_sites, selected_site, building_style,
      site_plan, layout, stages, house_details, flushCalls>>

\* buildCozyCottage from the draws of the dimensions to add_path:
\* clear_space, build_foundation, build_floor, build_walls, build_roof,
\* add_details, add_interior, add_fence and add_path.  Only build_foundation
\* can raise.
buildCozyCottage ==
    /\ pc = "site"
    /\ \E d \in CottageDimensions :
          /\ dimensions' = d
          /\ IF CottageFoundationRaises(num_rows, num_cols,
                                        flattest_position, d[1], d[2])
             THEN /\ raised' = "IndexError"
                  /\ pc' = "except"
             ELSE /\ raised' = raised
                  /\ pc' = "flowers"
    /\ UNCHANGED <<cottageIdle, evaluated, placeCalls, outcome>>

\* add_landscaping, one pass of "for _ in range(40)", and the loop's end.
add_landscaping_flowers ==
    /\ pc = "flowers"
    /\ IF evaluated = FlowerSamples
       THEN /\ pc' = "grass"
            /\ evaluated' = 0
            /\ UNCHANGED <<placeCalls, raised>>
       ELSE \E dx \in GardenDraws(dimensions[1]),
               dz \in GardenDraws(dimensions[2]) :
               LET did == FlowerSample(num_rows, num_cols, flattest_position,
                                       dimensions[1], dimensions[2], dx, dz)
               IN  /\ evaluated' = evaluated + 1
                   /\ placeCalls' = IF did = "flower"
                                    THEN placeCalls \cup {<<dx, dz>>}
                                    ELSE placeCalls
                   /\ raised' = IF did \in {"IndexError", "NameError"}
                                THEN did ELSE raised
                   /\ pc' = IF did \in {"IndexError", "NameError"}
                            THEN "except" ELSE pc
    /\ UNCHANGED <<cottageIdle, dimensions, outcome>>

\* add_landscaping, one pass of "for _ in range(60)", and the loop's end,
\* where add_landscaping and buildCozyCottage return.
add_landscaping_grass ==
    /\ pc = "grass"
    /\ IF evaluated = GrassSamples
       THEN /\ pc' = "returned"
            /\ UNCHANGED <<evaluated, raised>>
       ELSE \E dx \in GardenDraws(dimensions[1]),
               dz \in GardenDraws(dimensions[2]) :
               LET did == GrassSample(num_rows, num_cols, flattest_position,
                                      dimensions[1], dimensions[2], dx, dz)
               IN  /\ evaluated' = evaluated + 1
                   /\ raised' = IF did = "IndexError" THEN did ELSE raised
                   /\ pc' = IF did = "IndexError" THEN "except" ELSE pc
    /\ UNCHANGED <<cottageIdle, dimensions, placeCalls, outcome>>

\* main: print("Your cozy cottage with garden and fence is ready!")
CottageReady ==
    /\ pc = "returned"
    /\ outcome' = "ready"
    /\ pc' = "done"
    /\ exit_status' = 0
    /\ UNCHANGED <<input, lookup, sub_array_size, start_row, start_col,
                   min_gradient_magnitude, flattest_position,
                   flattest_subarray, max_value, evaluated, placeCalls,
                   calls, first_position, house>>

\* main: except Exception: print(f"Error during construction: {e}")
CottageError ==
    /\ pc = "except"
    /\ outcome' = "error"
    /\ pc' = "done"
    /\ exit_status' = 0
    /\ UNCHANGED <<input, lookup, sub_array_size, start_row, start_col,
                   min_gradient_magnitude, flattest_position,
                   flattest_subarray, max_value, evaluated, placeCalls,
                   calls, first_position, house>>

NextCottage ==
    \/ buildCozyCottage
    \/ add_landscaping_flowers
    \/ add_landscaping_grass
    \/ CottageReady
    \/ CottageError

SpecCottage == InitCottage /\ [][NextCottage]_vars

\* =========================================================== cozy_cottage.py
\* buildCozyCottage of cozy_cottage.py from the site find_best_location
\* returned to the end of add_landscaping, one read of the height map at a
\* step.  The height map is num_rows x num_cols, flattest_position is
\* best_position, evaluated counts the passes of the stage's loops, and
\* lookup is the last read: by which function, for which world column
\* (x_coord = x - STARTX, z_coord = z - STARTZ), at which index.

\* The read of a function that tests x_coord against len(heights[0]) and
\* z_coord against len(heights) and reads heights[(z_coord, x_coord)], or
\* None when the test fails: build_foundation and add_fence.
ReadRowZ(by, R, C, x_coord, z_coord) ==
    IF 0 <= x_coord /\ x_coord < C /\ 0 <= z_coord /\ z_coord < R
    THEN [by |-> by, x_coord |-> x_coord, z_coord |-> z_coord,
          index |-> <<z_coord, x_coord>>]
    ELSE None

\* The read of a function that tests x_coord against len(heights) and
\* z_coord against len(heights[0]) and reads heights[(x_coord, z_coord)], or
\* None when the test fails: add_landscaping (and level_terrain, which
\* buildCozyCottage does not call).
ReadRowX(by, R, C, x_coord, z_coord) ==
    IF SliceGuard(R, C, x_coord, z_coord)
    THEN [by |-> by, x_coord |-> x_coord, z_coord |-> z_coord,
          index |-> <<x_coord, z_coord>>]
    ELSE None

\* build_foundation's pass i: dx = i // (length + 2), dz = i % (length + 2).
FoundationPasses == (CozyWidth + 2) * (CozyLength + 2)

FoundationRead(R, C, pos, i) ==
    ReadRowZ("build_foundation", R, C,
             pos[2] + (i \div (CozyLength + 2)),
             pos[1] + (i % (CozyLength + 2)))

\* add_fence: the front and the back fence (x from fence_start_x to
\* fence_end_x), the left and the right fence (z between the corners) and
\* the two gates, as <<x_coord, z_coord>> relative to the site.
FenceSpanX == CozyWidth + 2 * FenceMargin + 1
FenceSpanZ == CozyLength + 2 * FenceMargin - 1
FencePasses == 2 * FenceSpanX + 2 * FenceSpanZ + 2

FenceCell(i) ==
    IF i < FenceSpanX
    THEN <<i - FenceMargin, 0 - FenceMargin>>
    ELSE IF i < 2 * FenceSpanX
    THEN <<i - FenceSpanX - FenceMargin, CozyLength + FenceMargin>>
    ELSE IF i < 2 * FenceSpanX + FenceSpanZ
    THEN <<0 - FenceMargin, i - 2 * FenceSpanX + 1 - FenceMargin>>
    ELSE IF i < 2 * FenceSpanX + 2 * FenceSpanZ
    THEN <<CozyWidth + FenceMargin,
           i - 2 * FenceSpanX - FenceSpanZ + 1 - FenceMargin>>
    ELSE IF i = 2 * FenceSpanX + 2 * FenceSpanZ
    THEN <<CozyWidth \div 2, 0 - FenceMargin>>
    ELSE <<CozyWidth \div 2, CozyLength + FenceMargin>>

FenceRead(R, C, pos, i) ==
    ReadRowZ("add_fence", R, C,
             pos[2] + FenceCell(i)[1], pos[1] + FenceCell(i)[2])

\* add_landscaping: one pass of either loop with the draw <<dx, dz>>.
LandscapingRead(R, C, pos, dx, dz) ==
    IF InFootprint(dx, dz, CozyWidth, CozyLength) THEN None
    ELSE ReadRowX("add_landscaping", R, C, pos[2] + dx, pos[1] + dz)

InitCozy ==
    /\ variant = "cozy_cottage"
    /\ num_rows \in CottageLens
    /\ num_cols \in CottageLens
    /\ marks = <<>>
    /\ requested = area_size
    /\ sub_array_size = area_size
    /\ pc = "site"
    /\ start_row = 0
    /\ start_col = 0
    /\ min_gradient_magnitude = 0
    /\ flattest_position \in CottageOffsets(num_rows) \X CottageOffsets(num_cols)
    /\ flattest_subarray = None
    /\ max_value = Unbound
    /\ evaluated = 0
    /\ placeCalls = {}
    /\ outcome = "running"
    /\ exit_status = Unbound
    /\ calls = 1
    /\ first_position = None
    /\ potential_sites = <<>>
    /\ selected_site = None
    /\ dimensions = None
    /\ building_style = "none"
    /\ site_plan = None
    /\ layout = None
    /\ stages = <<>>
    /\ raised = "none"
    /\ house_details = None
    /\ flushCalls = 0
    /\ lookup = None

\* The variables the cozy cottage's steps leave alone.
cozyIdle ==
    <<input, house, sub_array_size, start_row, start_col,
      min_gradient_magnitude, flattest_position, flattest_subarray,
      max_value, placeCalls, exit_status, calls, first_position>>

\* find_best_location: world_y = large_array[best_position] for the world
\* column x = STARTX + best_position[1], z = STARTZ + best_position[0].
find_best_location ==
    /\ pc = "site"
    /\ lookup' = [by |-> "find_best_location",
                  x_coord |-> flattest_position[2],
                  z_coord |-> flattest_position[1],
                  index |-> flattest_position]
    /\ pc' = "foundation"
    /\ UNCHANGED <<cozyIdle, evaluated, outcome>>

\* build_foundation of cozy_cottage.py, one pass of its double loop.
cozy_build_foundation ==
    /\ pc = "foundation"
    /\ IF evaluated = FoundationPasses
       THEN /\ pc' = "fence"
            /\ evaluated' = 0
            /\ UNCHANGED lookup
       ELSE /\ lookup' = FoundationRead(num_rows, num_cols,
                                        flattest_position, evaluated)
            /\ evaluated' = evaluated + 1
            /\ UNCHANGED pc
    /\ UNCHANGED <<cozyIdle, outcome>>

\* add_fence, one pass of its loops or one gate.
add_fence ==
    /\ pc = "fence"
    /\ IF evaluated = FencePasses
       THEN /\ pc' = "flowers"
            /\ evaluated' = 0
            /\ UNCHANGED lookup
       ELSE /\ lookup' = FenceRead(num_rows, num_cols, flattest_position,
                                   evaluated)
            /\ evaluated' = evaluated + 1
            /\ UNCHANGED pc
    /\ UNCHANGED <<cozyIdle, outcome>>

\* add_landscaping of cozy_cottage.py, one pass of the flower loop or of the
\* grass loop; after the last pass main prints its success message.
cozy_add_landscaping ==
    /\ pc \in {"flowers", "grass"}
    /\ IF pc = "flowers" /\ evaluated = FlowerSamples
       THEN /\ pc' = "grass"
            /\ evaluated' = 0
            /\ UNCHANGED <<lookup, outcome>>
       ELSE IF pc = "grass" /\ evaluated = GrassSamples
       THEN /\ pc' = "done"
            /\ outcome' = "ready"
            /\ UNCHANGED <<lookup, evaluated>>
       ELSE \E dx \in GardenDraws(CozyWidth), dz \in GardenDraws(CozyLength) :
               /\ lookup' = LandscapingRead(num_rows, num_cols,
                                            flattest_position, dx, dz)
               /\ evaluated' = evaluated + 1
               /\ UNCHANGED <<pc, outcome>>
    /\ UNCHANGED cozyIdle

NextCozy ==
    \/ find_best_location
    \/ cozy_build_foundation
    \/ add_fence
    \/ cozy_add_landscaping

SpecCozy == InitCozy /\ [][NextCozy]_vars

\* =================================================================== claims
\* The statements below are written from the claims, not from the routine:
\* they name windows by their offsets in the grid and score them directly.

\* The offsets of the k x k windows that lie inside an R x C grid.
Windows(R, C, k) ==
    IF k < 1 THEN {} ELSE (0 .. R - k) \X (0 .. C - k)

\* The k x k window at offset w holds no water cell.
LandOnly(w, k) ==
    \A i \in 0 .. k - 1, j \in 0 .. k - 1 :
        water_array[<<w[1] + i, w[2] + j>>] = 0

\* The cells of the k x k window at offset w, as a k x k array.
WindowCells(w, k) ==
    [p \in (0 .. k - 1) \X (0 .. k - 1) |->
        large_array[<<w[1] + p[1], w[2] + p[2]>>]]

\* The score of the k x k window at offset w (k >= 2).
WindowScore(w, k) == AvgGradient(WindowCells(w, k), k, k)

\* Offset a comes no later than offset b in row-major order.
RowMajorLE(a, b) == a[1] < b[1] \/ (a[1] = b[1] /\ a[2] <= b[2])

\* The search has ended and the script has not moved on.
AtSearchEnd == pc \in {"returned", "exited", "raised"}

\* ------------------------------------------------------------------- C1
\* C1: in 2height_maps.py and heightmap.py, whenever at least one k x k
\* window of the grid is water-free, the search returns an offset whose
\* window is water-free and whose score is the returned minimum and is at
\* most the score of every water-free k x k window.
C1_FlattestWaterFree ==
    ( /\ variant \in {"2height_maps", "heightmap"}
      /\ AtSearchEnd
      /\ \E w \in Windows(num_rows, num_cols, requested) :
            LandOnly(w, requested) )
    => /\ outcome = "returned"
       /\ flattest_position \in Windows(num_rows, num_cols, requested)
       /\ LandOnly(flattest_position, requested)
       /\ min_gradient_magnitude = WindowScore(flattest_position, requested)
       /\ \A w \in Windows(num_rows, num_cols, requested) :
             LandOnly(w, requested)
             => min_gradient_magnitude <= WindowScore(w, requested)

\* C1 for window sizes of at least 2, the sizes np.gradient accepts: the
\* statement of C1 holds of every such call.
C1_FlattestWaterFreeFromTwo == requested >= 2 => C1_FlattestWaterFree

\* ------------------------------------------------------------------- C2
\* C2 as stated: the returned offset and the window size the caller asked
\* for give a window inside the grid, in every variant.
C2_RequestedWindowInGrid ==
    pc = "returned"
    => /\ 0 <= flattest_position[1]
       /\ flattest_position[1] + requested <= num_rows
       /\ 0 <= flattest_position[2]
       /\ flattest_position[2] + requested <= num_cols

\* C2, amended: in every variant the returned offset and the window size
\* the scan ran with (the requested size, except in test.py after its
\* adjustment to min(R, C) - 8) give a window inside the grid.
C2_ScannedWindowInGrid ==
    pc = "returned"
    => /\ sub_array_size =
            (IF variant = "test"
                /\ (requested + 8 > num_rows \/ requested + 8 > num_cols)
             THEN Min2(num_rows, num_cols) - 8 ELSE requested)
       /\ 0 <= flattest_position[1]
       /\ flattest_position[1] + sub_array_size <= num_rows
       /\ 0 <= flattest_position[2]
       /\ flattest_position[2] + sub_array_size <= num_cols

\* C2 witness: test.py returned an offset after replacing the window size.
C2_Witness ==
    /\ pc = "returned"
    /\ variant = "test"
    /\ sub_array_size # requested
    /\ flattest_position[1] + sub_array_size <= num_rows

\* ------------------------------------------------------------------- C3
\* The offsets test.py scans lie at least 4 cells away from every border.
Scanned(w, k) ==
    variant = "test"
    => /\ 4 <= w[1] /\ w[1] + k + 4 <= num_rows
       /\ 4 <= w[2] /\ w[2] + k + 4 <= num_cols

\* The scanned water-free windows whose score equals the returned minimum.
MinimalWindows ==
    {w \in Windows(num_rows, num_cols, sub_array_size) :
        /\ Scanned(w, sub_array_size)
        /\ LandOnly(w, sub_array_size)
        /\ WindowScore(w, sub_array_size) = min_gradient_magnitude}

\* C3: the offset find_flattest_subarray returns is the first, in row-major
\* order, of the scanned water-free windows that have the minimum score.
C3_FirstOfEqualScores ==
    (pc = "returned" /\ variant \in FlattestVariants)
    => /\ flattest_position \in MinimalWindows
       /\ \A w \in MinimalWindows : RowMajorLE(flattest_position, w)

\* C3 witness: a returned offset with a later window of the same score.
C3_Witness ==
    /\ pc = "returned"
    /\ variant \in FlattestVariants
    /\ \E w \in MinimalWindows : w # flattest_position
    /\ min_gradient_magnitude > 0

\* ------------------------------------------------------------------- C4
\* Some scanned window of the size the scan runs with is water-free.
SomeLandWindow ==
    \E w \in Windows(num_rows, num_cols, sub_array_size) :
        Scanned(w, sub_array_size) /\ LandOnly(w, sub_array_size)

\* C4: in the find_flattest_subarray variants a window holding a water cell
\* is never the best one, and when every scanned window holds one the search
\* ends without a site: no offset is kept and none is returned.
C4_WaterRejected ==
    variant \in FlattestVariants
    => /\ flattest_position # None
          => LandOnly(flattest_position, sub_array_size)
       /\ (outcome # "running" /\ ~SomeLandWindow)
          => /\ outcome \in {"no_site", "ValueError"}
             /\ flattest_position = None
             /\ flattest_subarray = None

\* C4 witness: the 3 x 3 grid of constant elevation with water at (1,1) only,
\* window size 2: all four windows are scored and the search ends in exit().
C4_Witness ==
    /\ variant = "2height_maps"
    /\ num_rows = 3 /\ num_cols = 3 /\ requested = 2
    /\ \A p \in Cells(3, 3) :
          /\ large_array[p] = BaseHeight
          /\ water_array[p] = (IF p = <<1, 1>> THEN 1 ELSE 0)
    /\ outcome = "no_site"
    /\ evaluated = 4
    /\ flattest_position = None

\* ------------------------------------------------------------------- C5
\* C5: a run whose search found no water-free window ends with a non-zero
\* exit status and without any block-placement call.
C5_FailureExitStatus ==
    (pc = "done" /\ outcome = "no_site")
    => /\ exit_status # 0
       /\ placeCalls = {}

\* ------------------------------------------------------------------- C6
\* C6 as stated: a window size larger than the grid ends the search with an
\* error before any window is scored, in every variant.
C6_TooLargeFailsFast ==
    (pc # "call" /\ (requested > num_rows \/ requested > num_cols))
    => /\ outcome = "ValueError"
       /\ evaluated = 0

\* C6, amended: a window size larger than the grid ends the search with
\* ValueError before any window is scored in 2height_maps.py, heightmap.py
\* and the two cottages; test.py does so only when min(R, C) - 8 < 4 and
\* otherwise goes on with the window size min(R, C) - 8.
C6_TooLargeFailsFastOrAdjusts ==
    (pc # "call" /\ (requested > num_rows \/ requested > num_cols))
    => IF variant = "test" /\ Min2(num_rows, num_cols) - 8 >= 4
       THEN /\ sub_array_size = Min2(num_rows, num_cols) - 8
            /\ (outcome # "running" => evaluated >= 1)
       ELSE /\ outcome = "ValueError"
            /\ evaluated = 0
            /\ pc \in {"raised", "done"}

\* C6 witness: a cottage asked for a window wider than the grid has columns.
C6_Witness ==
    /\ variant = "cozy_cottage"
    /\ requested <= num_rows /\ requested > num_cols
    /\ pc = "raised"
    /\ evaluated = 0

\* ------------------------------------------------------------------- C7
\* Leaves stand on some cell of the window the search chose.
LeavesInChosenWindow ==
    \E i \in 0 .. sub_array_size - 1, j \in 0 .. sub_array_size - 1 :
        leaves_array[<<flattest_position[1] + i,
                       flattest_position[2] + j>>] > 0

C9_ReturnedValuesOfWindow ==
    (pc = "returned" /\ variant \in {"2height_maps", "heightmap"})
    => /\ min_gradient_magnitude = WindowScore(flattest_position, requested)
       /\ flattest_subarray = WindowCells(flattest_position, requested)
       /\ \E p \in DOMAIN flattest_subarray :
             max_value = flattest_subarray[p]
       /\ \A i \in 0 .. requested - 1, j \in 0 .. requested - 1 :
             large_array[<<flattest_position[1] + i,
                           flattest_position[2] + j>>] <= max_value

\* C9 witness: a returned window that is not the first one scanned and whose
\* maximum is below the maximum of the grid.
C9_Witness ==
    /\ pc = "returned"
    /\ variant = "heightmap"
    /\ flattest_position # <<0, 0>>
    /\ \E p \in Cells(num_rows, num_cols) : large_array[p] > max_value

\* ------------------------------------------------------------------ C10
\* C10 as stated: with k = min(R, C) at most one window is scored and a
\* returned offset is (0,0).
C10_SingleCandidate ==
    (variant # "test" /\ requested = Min2(num_rows, num_cols))
    => /\ evaluated <= 1
       /\ pc = "returned" => flattest_position = <<0, 0>>

\* C10, amended: with k = min(R, C) the candidates are the |R - C| + 1
\* offsets along the longer axis, all of them scored when the search
\* returns; on a square grid that is the single offset (0,0).
C10_CandidatesAlongLongerAxis ==
    (variant # "test" /\ requested = Min2(num_rows, num_cols))
    => /\ evaluated <= Max2(num_rows, num_cols) - requested + 1
       /\ pc = "returned"
          => /\ evaluated = Max2(num_rows, num_cols) - requested + 1
             /\ flattest_position[1] = 0 \/ flattest_position[2] = 0
             /\ flattest_position[1] <= num_rows - requested
             /\ flattest_position[2] <= num_cols - requested
             /\ num_rows = num_cols => flattest_position = <<0, 0>>

\* C10 witness: a square grid scanned with k = R = C returned (0,0).
C10_Witness ==
    /\ variant = "2height_maps"
    /\ num_rows = num_cols
    /\ requested = num_rows
    /\ pc = "returned"
    /\ evaluated = 1
    /\ flattest_position = <<0, 0>>

\* ------------------------------------------------------------------ C11
\* Every cell of the water mask is nonzero.
AllWater == \A p \in Cells(num_rows, num_cols) : water_array[p] # 0

\* The window size lies in the stated domain 1 <= k <= min(R, C).
SizeInDomain == 1 <= requested /\ requested <= Min2(num_rows, num_cols)

\* C11: in 2height_maps.py and heightmap.py a search on a grid whose water
\* mask is nonzero everywhere ends in the no-valid-site failure, for every
\* window size of the domain: never in a returned site or another error.
C11_AllWaterNoSite ==
    ( /\ variant \in {"2height_maps", "heightmap"}
      /\ AllWater
      /\ SizeInDomain
      /\ AtSearchEnd )
    => outcome = "no_site"

\* C11 for window sizes of at least 2: the statement of C11 holds.
C11_AllWaterNoSiteFromTwo == requested >= 2 => C11_AllWaterNoSite

\* ------------------------------------------------------------------ C12
\* All the cells of the k x k window at offset w have the same elevation.
Constant(w, k) ==
    \A i \in 0 .. k - 1, j \in 0 .. k - 1 :
        large_array[<<w[1] + i, w[2] + j>>] = large_array[w]

\* The scanned water-free windows of constant elevation.
ConstantWindows ==
    {w \in Windows(num_rows, num_cols, sub_array_size) :
        /\ Scanned(w, sub_array_size)
        /\ LandOnly(w, sub_array_size)
        /\ Constant(w, sub_array_size)}

\* C12: for k >= 2 a window scores 0 exactly when its cells have one
\* elevation and more than 0 otherwise; and when some scanned water-free
\* window is constant, find_flattest_subarray returns the first of them in
\* row-major order, with score 0.
C12_ZeroScoreIffConstant ==
    (pc = "returned" /\ variant \in FlattestVariants /\ sub_array_size >= 2)
    => /\ \A w \in Windows(num_rows, num_cols, sub_array_size) :
             /\ WindowScore(w, sub_array_size) >= 0
             /\ WindowScore(w, sub_array_size) = 0
                  <=> Constant(w, sub_array_size)
       /\ ConstantWindows # {}
          => /\ min_gradient_magnitude = 0
             /\ flattest_position \in ConstantWindows
             /\ \A w \in ConstantWindows : RowMajorLE(flattest_position, w)

\* C12 witness: the 4 x 4 grid of constant elevation with a single spike at
\* (3,3), window size 2: the search returned (0,0) with score 0.
C12_Witness ==
    /\ pc = "returned"
    /\ variant = "2height_maps"
    /\ num_rows = 4 /\ num_cols = 4 /\ requested = 2
    /\ \A p \in Cells(4, 4) :
          /\ water_array[p] = 0
          /\ large_array[p] = (IF p = <<3, 3>> THEN BaseHeight + 1
                                ELSE BaseHeight)
    /\ flattest_position = <<0, 0>>
    /\ min_gradient_magnitude = 0
    /\ WindowScore(<<2, 2>>, 2) > 0

\* ------------------------------------------------------------------ C13
\* C13: in 2height_maps.py and heightmap.py every window size of the domain
\* 1 <= k <= min(R, C), k = 1 included, is accepted: when some k x k window
\* is water-free the search returns an offset and does not end in an error.
C13_EverySizeAccepted ==
    ( /\ variant \in {"2height_maps", "heightmap"}
      /\ SizeInDomain
      /\ AtSearchEnd
      /\ \E w \in Windows(num_rows, num_cols, requested) :
            LandOnly(w, requested) )
    => /\ outcome = "returned"
       /\ flattest_position # None

\* ------------------------------------------------------------------ C14
\* The five stages of build_house_procedural, in the order of the calls.
FiveStages == <<"foundation", "walls", "roof", "interior", "garden">>

\* C14: in extreme.py the stages that have completed are always the first
\* stages of foundation, walls and structure, roof, interior details, garden
\* and landscaping in that order, and unless it is interrupted from the
\* keyboard build_house_procedural completes all five for whatever site,
\* style and plan it drew, and returns the house details.
C14_FiveStagesThenReturn ==
    variant = "extreme"
    => /\ Len(stages) <= Len(FiveStages)
       /\ stages = SubSeq(FiveStages, 1, Len(stages))
       /\ (pc = "done" /\ raised # "KeyboardInterrupt")
          => /\ stages = FiveStages
             /\ house_details # None

\* The order alone: the completed stages are always the first stages of the
\* five, so no stage starts before the one ahead of it completed.
C14_StagesInOrder ==
    variant = "extreme"
    => /\ Len(stages) <= Len(FiveStages)
       /\ stages = SubSeq(FiveStages, 1, Len(stages))
       /\ house_details # None => stages = FiveStages

\* ------------------------------------------------------------------ C15
\* C15: every execution of main of extreme.py reaches its end having called
\* ED.flushBuffer exactly once, whether build_house_procedural returned, was
\* interrupted from the keyboard or raised another exception at any stage.
C15_FlushExactlyOnce == <>(pc = "done" /\ flushCalls = 1)

\* C15 witness: main ended after a KeyboardInterrupt that arrived when the
\* foundation, the walls and the roof had been built, with one flush.
C15_Witness ==
    /\ pc = "done"
    /\ raised = "KeyboardInterrupt"
    /\ stages = <<"foundation", "walls", "roof">>
    /\ flushCalls = 1

\* ------------------------------------------------------------------ C16
\* analyze_terrain has returned and build_house_procedural is running.
SitesAlive ==
    pc \in {"choose", "plan", "layout", "foundation", "walls", "roof",
            "interior", "garden", "flush"}

\* C16: the list analyze_terrain returns is never empty and its qualities
\* never increase along the list; when no chunk qualifies it is the single
\* default site of quality 5 at the grid's centre; and the slice of the top
\* sites the build picks from is not empty.
C16_SitesNonEmptySorted ==
    (variant = "extreme" /\ SitesAlive)
    => /\ Len(potential_sites) >= 1
       /\ \A i \in 1 .. Len(potential_sites), j \in 1 .. Len(potential_sites) :
             i < j => potential_sites[i].quality >= potential_sites[j].quality
       /\ TopSites(potential_sites) # <<>>
       /\ (pc = "choose"
           /\ \A i \in 0 .. NumChunks(num_rows) - 1,
                 j \in 0 .. NumChunks(num_cols) - 1 :
                 ~Qualifies(ChunkSite(marks, num_rows, num_cols,
                                      ChunkStart(i), ChunkStart(j))))
          => /\ Len(potential_sites) = 1
             /\ potential_sites[1].type = "default"
             /\ potential_sites[1].quality = 5 * ChunkCells
             /\ potential_sites[1].local_x = num_rows \div 2
             /\ potential_sites[1].local_z = num_cols \div 2

\* C16 witness: two sites were found, and the one the scan met second has
\* the larger quality and comes first in the list.
C16_Witness ==
    /\ variant = "extreme"
    /\ pc = "choose"
    /\ Len(potential_sites) = 2
    /\ potential_sites[1].quality > potential_sites[2].quality
    /\ potential_sites[1].local_x > potential_sites[2].local_x

\* ------------------------------------------------------------------ C17
\* C17: create_house_layout never raises: from every style and every plan
\* create_terrain_adaptation_plan made for it (split-level on a site that is
\* not a hillside included) it returns a layout of at least one room, with
\* outer_width and outer_length spanning the rooms.
C17_LayoutNeverRaises ==
    [][(pc = "layout" /\ raised' # "KeyboardInterrupt")
       => /\ pc' = "foundation"
          /\ raised' = "none"
          /\ Len(layout'.rooms) >= 1
          /\ \A i \in DOMAIN layout'.rooms :
                /\ layout'.rooms[i].x2 - layout'.rooms[i].x1
                     <= layout'.outer_width
                /\ layout'.rooms[i].z2 - layout'.rooms[i].z1
                     <= layout'.outer_length]_vars

\* C17 for the other six styles, and for split-level on a hillside: the
\* statement of C17 holds.
C17_LayoutNeverRaisesElsewhere ==
    [][(/\ pc = "layout"
        /\ raised' # "KeyboardInterrupt"
        /\ (building_style # "split-level"
            \/ selected_site.type = "hillside"))
       => /\ pc' = "foundation"
          /\ raised' = "none"
          /\ Len(layout'.rooms) >= 1
          /\ \A i \in DOMAIN layout'.rooms :
                /\ layout'.rooms[i].x2 - layout'.rooms[i].x1
                     <= layout'.outer_width
                /\ layout'.rooms[i].z2 - layout'.rooms[i].z1
                     <= layout'.outer_length]_vars

\* ------------------------------------------------------------------ C18
\* The plan of the build exists.
Planned ==
    pc \in {"layout", "foundation", "walls", "roof", "interior", "garden",
            "flush"}

\* C18: a plan whose foundation_mode is embedded has exactly `tiers` entries
\* in multi_level_heights, so the height of every tier index in range(tiers)
\* is defined when build_foundation looks it up.
C18_EmbeddedHeightsDefined ==
    (variant = "extreme" /\ Planned
     /\ site_plan.foundation_mode = "embedded")
    => /\ Len(site_plan.multi_level_heights) = site_plan.tiers
       /\ \A tier \in 0 .. site_plan.tiers - 1 :
             tier + 1 \in DOMAIN site_plan.multi_level_heights

\* C18 for split-level on a hillside site: the statement of C18 holds.
C18_EmbeddedHeightsDefinedOnHillside ==
    (variant = "extreme" /\ Planned
     /\ site_plan.foundation_mode = "embedded"
     /\ selected_site.type = "hillside")
    => /\ Len(site_plan.multi_level_heights) = site_plan.tiers
       /\ \A tier \in 0 .. site_plan.tiers - 1 :
             tier + 1 \in DOMAIN site_plan.multi_level_heights

\* ------------------------------------------------------------------ C19
\* C19: analyze_terrain can return a waterfront site: for some grids of the
\* family a site of type waterfront and quality 8 is in the list.
C19_WaterfrontReachable ==
    variant = "extreme"
    => \E shape \in ExtremeShapes, ms \in FeatureSets :
        LET sites == AnalyzeTerrain(ms, GridLen(shape[1]), GridLen(shape[2]))
        IN  \E i \in DOMAIN sites :
               /\ sites[i].type = "waterfront"
               /\ sites[i].quality = 8 * ChunkCells

\* What holds instead: no site of any list is of type waterfront, also when
\* the only water of the grid lies next to a chunk and outside it.
C19_NeverWaterfront ==
    (variant = "extreme" /\ SitesAlive)
    => \A i \in DOMAIN potential_sites :
          potential_sites[i].type # "waterfront"

\* ------------------------------------------------------------------ C20
\* build_foundation and the stages before add_landscaping did not raise.
EarlierStagesSucceeded ==
    /\ dimensions # None
    /\ ~CottageFoundationRaises(num_rows, num_cols, flattest_position,
                                dimensions[1], dimensions[2])

\* C20: in new_cottage.py add_landscaping never raises, whatever it draws, so
\* whenever the stages before it succeeded main ends having printed its
\* success message and no exception has left buildCozyCottage.
C20_LandscapingNeverRaises ==
    (variant = "new_cottage" /\ pc = "done" /\ EarlierStagesSucceeded)
    => /\ raised = "none"
       /\ outcome = "ready"

\* What holds instead: no flower is ever placed, and main prints its success
\* message only when none of the 40 flower samples reached the trees' test.
C20_NoFlowerEverPlaced ==
    variant = "new_cottage"
    => /\ placeCalls = {}
       /\ raised = "NameError" => outcome # "ready"
       /\ outcome = "ready" => raised = "none"

\* ------------------------------------------------------------------ C21
\* The cells build_foundation of new_cottage.py visits, as <<x_coord,
\* z_coord>>: dx in range(width + 2), dz in range(length + 2) from the site.
FoundationCells ==
    {<<flattest_position[2] + dx, flattest_position[1] + dz>> :
        dx \in 0 .. dimensions[1] + 1, dz \in 0 .. dimensions[2] + 1}

\* C21: in build_foundation of new_cottage.py the bounds test on (x_coord,
\* z_coord) passes exactly for the cells whose index (z_coord, x_coord) lies
\* inside the height map, so every cell read is inside the array and the
\* stage does not raise, whatever the shape of the build area.
C21_FoundationReadsInside ==
    (variant = "new_cottage" /\ dimensions # None)
    => /\ \A c \in FoundationCells :
             SliceGuard(num_rows, num_cols, c[1], c[2])
             <=> InHeightmap(num_rows, num_cols, c[1], c[2])
       /\ EarlierStagesSucceeded

\* C21 on a square build area: the statement of C21 holds.
C21_FoundationReadsInsideSquare ==
    (variant = "new_cottage" /\ dimensions # None /\ num_rows = num_cols)
    => /\ \A c \in FoundationCells :
             SliceGuard(num_rows, num_cols, c[1], c[2])
             <=> InHeightmap(num_rows, num_cols, c[1], c[2])
       /\ EarlierStagesSucceeded

\* ------------------------------------------------------------------ C22
\* C22: within cozy_cottage.py every read of the height map for the world
\* column (x, z) is at index (z - STARTZ, x - STARTX), row = z and
\* column = x, whichever function makes it.
C22_OneAxisConvention ==
    (variant = "cozy_cottage" /\ lookup # None)
    => lookup.index = <<lookup.z_coord, lookup.x_coord>>

\* What holds instead: find_best_location, build_foundation and add_fence
\* read (z_coord, x_coord), add_landscaping reads (x_coord, z_coord).
C22_AllButLandscaping ==
    (variant = "cozy_cottage" /\ lookup # None)
    => IF lookup.by = "add_landscaping"
       THEN lookup.index = <<lookup.x_coord, lookup.z_coord>>
       ELSE lookup.index = <<lookup.z_coord, lookup.x_coord>>

\* ------------------------------------------------------------------ C23
\* The mean elevation of the k x k window at offset w is within [60, 100].
InRange(w, k) ==
    LET total == SumSet(Cells(k, k), WindowCells(w, k))
    IN  /\ MinAvgHeight * k * k <= total
        /\ total <= MaxAvgHeight * k * k

\* The windows of the grid whose mean elevation is within the range.
Candidates ==
    {w \in Windows(num_rows, num_cols, sub_array_size) :
        InRange(w, sub_array_size)}

\* C23: find_best_location of cozy_cottage.py returns the first, in row-major
\* order, of the windows of least score among those whose mean elevation is
\* within [60, 100], no other window having been considered; when there is
\* no such window it returns offset (0,0) with no score recorded, the script
\* goes on to build there and the process ends with status 0.
C23_BestInRangeOrOrigin ==
    (variant = "cozy_cottage" /\ outcome = "returned")
    => IF Candidates = {}
       THEN /\ flattest_position = <<0, 0>>
            /\ min_gradient_magnitude = Inf
            /\ pc \in {"built", "done"} => placeCalls = {<<0, 0>>}
            /\ pc = "done" => exit_status = 0
       ELSE /\ flattest_position \in Candidates
            /\ min_gradient_magnitude
                 = WindowScore(flattest_position, sub_array_size)
            /\ \A w \in Candidates :
                  /\ min_gradient_magnitude <= WindowScore(w, sub_array_size)
                  /\ WindowScore(w, sub_array_size) = min_gradient_magnitude
                     => RowMajorLE(flattest_position, w)

\* C23 witness: the search scored several windows, every one of them lies
\* above the range, and offset (0,0) was returned and built on.
C23_Witness ==
    /\ variant = "cozy_cottage"
    /\ pc = "done"
    /\ outcome = "returned"
    /\ evaluated >= 2
    /\ Candidates = {}
    /\ \E p \in DOMAIN marks : marks[p] = "summit"
    /\ flattest_position = <<0, 0>>
    /\ exit_status = 0
====
